---- MODULE Spec2Model ----
(***************************************************************************)
(* The todo detail view (TodoViewDialog) of the workspace frontend, its    *)
(* owning page (TodosPage) and the remote item API it talks to.            *)
(*                                                                         *)
(* React state is modelled by one variable per useState cell.  An event    *)
(* handler runs atomically up to its first await; the continuation after   *)
(* the await is a separate action that fires when the response of the      *)
(* remote call is delivered.  Functional state updates (setItems(prev =>   *)
(* ...)) read the current value of the cell; values captured by a closure  *)
(* (todo, item, tempId, pendingDeleteId) travel with the in-flight call.   *)
(***************************************************************************)
EXTENDS Integers, Sequences, FiniteSets, TLC

VARIABLES
    todos,            \* TodosPage: todos, as a function from todo id to Todo
    viewDialogOpen,   \* TodosPage: viewDialogOpen
    viewingTodo,      \* TodosPage: viewingTodo (a Todo or NoTodo)
    items,            \* TodoViewDialog: items
    pendingItemIds,   \* TodoViewDialog: pendingItemIds
    loading,          \* TodoViewDialog: loading
    pendingDeleteId,  \* TodoViewDialog: pendingDeleteId (an id or NoId)
    notification,     \* TodoViewDialog: useNotification().notification
    inflight,         \* remote calls issued and not yet settled, in issue order
    timers,           \* setTimeout(..., 0) callbacks not yet run, in FIFO order
    serverItems,      \* the remote API: items of each todo
    nextId,           \* the remote API: next item id to hand out
    now,              \* Date.now()
    budget,           \* how many more user operations this run may start
    fetchCount,       \* list fetches issued since the view last changed target
    last,             \* the last step taken: its event, call and prior items
    config,           \* ConfigProvider: config
    configLoading,    \* ConfigProvider: loading
    user,             \* AuthProvider: user
    authLoading,      \* AuthProvider: loading
    hasAttemptedLoad, \* AuthProvider: hasAttemptedLoad
    skipAutoLoad,     \* AuthProvider: skipAutoLoad
    listening,        \* window: handleLogout is registered for "auth:logout"
    ranDeps,          \* AuthProvider: the dependencies its effect last ran with
    session,          \* the remote API: the session cookie is valid
    authCalls,        \* requests through the API client not yet settled
    authBudget,       \* how many more requests this run may start
    authLast,         \* the last response delivered through the API client
    noteViewOpen,     \* NotesPage: viewDialogOpen
    viewingNote,      \* NotesPage: viewingNote (a Note or NoNote)
    noteNotice,       \* NotesPage: useNotification().notification
    attachments,      \* NoteViewDialog: attachments
    loadingAttachments, \* NoteViewDialog: loadingAttachments
    attachmentError,  \* NoteViewDialog: attachmentError
    hasFetchedRef,    \* NoteViewDialog: hasFetchedRef.current
    noteCalls,        \* attachment fetches not yet settled
    noteBudget,       \* how many more user operations this run may start
    noteLast,         \* the last step of the note view
    formOpen,         \* NotesPage: formOpen
    editingNote,      \* NotesPage: editingNote (a Note or NoNote)
    notes,            \* NotesPage: notes
    apiLoading,       \* NotesPage: apiLoading
    title,            \* NoteForm: title
    content,          \* NoteForm: content
    selectedFiles,    \* NoteForm: selectedFiles
    existingAttachments, \* NoteForm: existingAttachments
    formLoadingAttachments, \* NoteForm: loadingAttachments
    deletingAttachmentId, \* NoteForm: deletingAttachmentId (an id or NoAtt)
    formLoading,      \* NoteForm: loading
    srvNotes,         \* the remote API: the notes created through the form
    srvAttachments,   \* the remote API: the attachments of each note
    uploaded,         \* the remote API: the uploads it has stored
    formCalls,        \* remote calls of the notes page not yet settled
    formBudget,       \* how many more user operations this run may start
    formSession,      \* how many times the form has been opened
    formLast,         \* the last step of the note form
    editingTodo,      \* TodosPage: editingTodo (a Todo or NoTodo)
    todoCalls         \* updateTodo calls of TodosPage not yet settled

todoVars == <<todos, viewDialogOpen, viewingTodo, items, pendingItemIds,
              loading, pendingDeleteId, notification, inflight, timers,
              serverItems, nextId, now, budget, fetchCount, last,
              editingTodo, todoCalls>>

\* The TodoForm in edit mode and what TodosPage keeps for it.
editVars == <<editingTodo, todoCalls>>

authVars == <<config, configLoading, user, authLoading, hasAttemptedLoad,
              skipAutoLoad, listening, ranDeps, session, authCalls,
              authBudget, authLast>>

noteVars == <<noteViewOpen, viewingNote, noteNotice, attachments,
              loadingAttachments, attachmentError, hasFetchedRef, noteCalls,
              noteBudget, noteLast>>

\* The NoteViewDialog and what NotesPage keeps for it.
noteViewVars == <<noteViewOpen, viewingNote, attachments, loadingAttachments,
                  attachmentError, hasFetchedRef, noteCalls, noteBudget,
                  noteLast>>

formVars == <<formOpen, editingNote, notes, apiLoading, title, content,
              selectedFiles, existingAttachments, formLoadingAttachments,
              deletingAttachmentId, formLoading, srvNotes, srvAttachments,
              uploaded, formCalls, formBudget, formSession, formLast>>

vars == <<todoVars, authVars, noteVars, formVars>>

pageVars == <<todos, viewDialogOpen, viewingTodo>>
serverVars == <<serverItems, nextId>>

----------------------------------------------------------------------------
(* Bounds of the model *)

MaxOps == 3    \* user operations (open a card, add, toggle, edit, delete) per run
MaxAuthOps == 3    \* requests started by the user (login, logout, page request)
MaxNoteOps == 4    \* user operations on the notes page
MaxFormOps == 3    \* user operations on the note form that start a request
MaxFiles == 2      \* files waiting in the note form at one time
MaxFormCalls == 2  \* requests in flight when a render not caused by a response adds one
MaxTimers == 1     \* setTimeout callbacks waiting when the todo form is submitted

----------------------------------------------------------------------------
(* Values *)

TodoIds == {"A", "B"}

NoTodo == [id |-> "none", title |-> "", items |-> <<>>]
NoId == <<"none", 0>>
NoItem == [id |-> NoId, description |-> <<>>, isCompleted |-> FALSE,
           todoId |-> "none"]

TempId(t) == <<"temp", t>>
ServerId(n) == <<"srv", n>>

\* Texts a user may type; a text is a sequence of characters.
Texts == { <<" ", " ">>, <<" ", "b", " ">> }

RECURSIVE TrimStart(_)
TrimStart(s) ==
    IF s = <<>> THEN s
    ELSE IF Head(s) = " " THEN TrimStart(Tail(s)) ELSE s

RECURSIVE TrimEnd(_)
TrimEnd(s) ==
    IF s = <<>> THEN s
    ELSE IF s[Len(s)] = " " THEN TrimEnd(SubSeq(s, 1, Len(s) - 1)) ELSE s

\* Mutant: the text is used as typed.
Trim_None(s) == s

\* String.prototype.trim
Trim(s) == TrimEnd(TrimStart(s))

MapItems(s, F(_)) == [i \in 1..Len(s) |-> F(s[i])]

Ids(s) == {s[i].id : i \in 1..Len(s)}

Notice(message, severity) ==
    [open |-> TRUE, message |-> message, severity |-> severity]

\* A remote call in flight, with what its continuation closes over: the todo
\* prop, the target id (the temporary id for a create), the text or flag sent
\* and, for a toggle, the item found at the time of the click.
Call(kind, todo, id, text, flag, item) ==
    [kind |-> kind, todo |-> todo, id |-> id, text |-> text, flag |-> flag,
     item |-> item, stage |-> "sent", resp |-> <<>>]

NoCall == Call("none", NoTodo, NoId, <<>>, FALSE, NoItem)

\* What `last` records of a step: the event, the remote call it started or
\* settled, the text the user typed (for an edit) and the items before it.
EventWith(ev, call, input) ==
    [ev |-> ev, call |-> call, input |-> input, before |-> items]

Event(ev, call) == EventWith(ev, call, <<>>)

RemoveAt(s, i) == SubSeq(s, 1, i - 1) \o SubSeq(s, i + 1, Len(s))

----------------------------------------------------------------------------
(* Initial state of the todo view: the page has loaded its todo lists, no   *)
(* view is open.                                                           *)

InitialServerItems ==
    [t \in TodoIds |->
        IF t = "A"
        THEN << [id |-> ServerId(1), description |-> <<"a">>,
                 isCompleted |-> FALSE, todoId |-> "A"],
                [id |-> ServerId(2), description |-> <<"a">>,
                 isCompleted |-> FALSE, todoId |-> "A"] >>
        ELSE <<>>]

TodoStart ==
    /\ todos = [t \in TodoIds |-> [id |-> t, title |-> "t0", items |-> <<>>]]
    /\ viewDialogOpen = FALSE
    /\ viewingTodo = NoTodo
    /\ items = <<>>
    /\ pendingItemIds = {}
    /\ loading = FALSE
    /\ pendingDeleteId = NoId
    /\ notification = [open |-> FALSE, message |-> "", severity |-> "success"]
    /\ inflight = <<>>
    /\ timers = <<>>
    /\ serverItems = InitialServerItems
    /\ nextId = 3
    /\ now = 0
    /\ budget = MaxOps
    /\ fetchCount = 0
    /\ last = [ev |-> "init", call |-> NoCall, input |-> <<>>, before |-> <<>>]
    /\ editingTodo = NoTodo
    /\ todoCalls = <<>>

----------------------------------------------------------------------------
(* Pure pieces of the handlers *)

\* const tempId = `temp-${Date.now()}`
NewTempId(clock) == TempId(clock)

\* Mutant: the matching item is dropped and the new one is put at the end.
ReplaceItem_MoveToEnd(prev, id, newItem) ==
    Append(SelectSeq(prev, LAMBDA it : it.id # id), newItem)

\* prev.map((item) => item.id === tempId ? newItem : item)
ReplaceItem(prev, id, newItem) ==
    MapItems(prev, LAMBDA it : IF it.id = id THEN newItem ELSE it)

\* Mutant: the filter keeps the matching item and drops the others.
RemoveItem_Inverted(prev, id) == SelectSeq(prev, LAMBDA it : it.id = id)

\* prev.filter((item) => item.id !== id)
RemoveItem(prev, id) == SelectSeq(prev, LAMBDA it : it.id # id)

\* prev.map((i) => i.id === itemId ? { ...i, isCompleted: status } : i)
PatchCompleted(prev, id, status) ==
    MapItems(prev, LAMBDA it :
        IF it.id = id THEN [it EXCEPT !.isCompleted = status] ELSE it)

\* items.find((i) => i.id === itemId)
FindItem(list, id) ==
    IF id \in Ids(list)
    THEN list[CHOOSE i \in 1..Len(list) :
                 /\ list[i].id = id
                 /\ \A j \in 1..(i - 1) : list[j].id # id]
    ELSE NoItem

\* Mutant: the catch branch of the toggle does not restore the item.
RevertItem_Keep(prev, id, item) == prev

\* prev.map((i) => (i.id === itemId ? item : i)), item being the one found
\* when the toggle was clicked
RevertItem(prev, id, item) == ReplaceItem(prev, id, item)

\* Mutant: the temporary id is not put into the set.
MarkPending_Never(prev, id) == prev

\* new Set(prev).add(tempId)
MarkPending(prev, id) == prev \cup {id}

\* Mutant: the temporary id is never taken out of the set.
UnmarkPending_Forget(prev, id) == prev

\* const updated = new Set(prev); updated.delete(tempId)
UnmarkPending(prev, id) == prev \ {id}

\* { ...todo, items: updated }
WithItems(todo, list) == [todo EXCEPT !.items = list]

\* Mutant: the effect depends on the todo object instead of on its id.
OpenEffectDeps_Object(open, todo) == <<open, todo>>

\* The dependency list of the effect that loads the items.
OpenEffectDeps(open, todo) == <<open, todo.id>>

\* The Dialog is shown, so its controls can be used.
DialogVisible == viewDialogOpen /\ viewingTodo # NoTodo

\* The delete confirmation Popover is a modal above the dialog.
PopoverOpen == pendingDeleteId # NoId

\* The item list is rendered only when not loading.
ListVisible == DialogVisible /\ ~loading /\ ~PopoverOpen

CanStart == budget > 0

Spend == budget - 1

----------------------------------------------------------------------------
(* TodosPage *)

\* handleTodoUpdate, called with the viewingTodo its closure saw.
TodosAfterUpdate(updatedTodo) ==
    [t \in DOMAIN todos |->
        IF todos[t].id = updatedTodo.id THEN updatedTodo ELSE todos[t]]

ViewingAfterUpdate(updatedTodo, closureViewing) ==
    IF closureViewing.id = updatedTodo.id THEN updatedTodo ELSE viewingTodo

(* The effects of TodoViewDialog that run after a render.  The conjuncts     *)
(* before a use of Effects fix viewDialogOpen', viewingTodo' and items'.     *)
(* pageRendered: TodosPage set some state, so onTodoUpdate is a new function;*)
(* itemsSet: setItems ran, so updateParentTodo is a new function.            *)
Effects(pageRendered, itemsSet, calls, tms, ld) ==
    LET depsChanged ==
            OpenEffectDeps(viewDialogOpen', viewingTodo')
                # OpenEffectDeps(viewDialogOpen, viewingTodo)
        targetChanged ==
            <<viewDialogOpen', viewingTodo'.id>>
                # <<viewDialogOpen, viewingTodo.id>>
        fetchNow ==
            depsChanged /\ viewDialogOpen' /\ viewingTodo'.id # "none"
        notifyNow ==
            /\ ~viewDialogOpen'
            /\ viewingTodo' # NoTodo
            /\ (pageRendered \/ itemsSet)
    IN  /\ inflight' =
            IF fetchNow
            THEN Append(calls,
                     Call("fetch", viewingTodo', NoId, <<>>, FALSE, NoItem))
            ELSE calls
        /\ loading' = IF fetchNow THEN TRUE ELSE ld
        /\ timers' =
            IF notifyNow
            THEN Append(tms, [todo |-> viewingTodo', items |-> items'])
            ELSE tms
        /\ fetchCount' =
            (IF targetChanged THEN 0 ELSE fetchCount)
                + (IF fetchNow THEN 1 ELSE 0)

handleCardClick(t) ==
    /\ UNCHANGED <<authVars, noteVars, formVars, editVars>>
    /\ ~DialogVisible
    /\ editingTodo = NoTodo
    /\ CanStart
    /\ budget' = Spend
    /\ viewingTodo' = todos[t]
    /\ viewDialogOpen' = TRUE
    /\ last' = Event("open", NoCall)
    /\ UNCHANGED <<todos, items, pendingItemIds, pendingDeleteId,
                   notification, serverVars, now>>
    /\ Effects(TRUE, FALSE, inflight, timers, loading)

handleViewDialogClose ==
    /\ UNCHANGED <<authVars, noteVars, formVars, editVars>>
    /\ DialogVisible
    /\ ~PopoverOpen
    /\ viewDialogOpen' = FALSE
    /\ viewingTodo' = NoTodo
    /\ last' = Event("close", NoCall)
    /\ UNCHANGED <<todos, items, pendingItemIds, pendingDeleteId,
                   notification, serverVars, now, budget>>
    /\ Effects(TRUE, FALSE, inflight, timers, loading)

\* A setTimeout(..., 0) callback runs: onTodoUpdate({ ...todo, items }).
RunTimer ==
    /\ UNCHANGED <<authVars, noteVars, formVars, editVars>>
    /\ timers # <<>>
    /\ LET t == Head(timers)
           updatedTodo == WithItems(t.todo, t.items)
       IN  /\ todos' = TodosAfterUpdate(updatedTodo)
           /\ viewingTodo' = ViewingAfterUpdate(updatedTodo, t.todo)
           /\ last' = Event("notify",
                            Call("notify", t.todo, NoId, <<>>, FALSE, NoItem))
    /\ UNCHANGED <<viewDialogOpen, items, pendingItemIds, pendingDeleteId,
                   notification, serverVars, now, budget>>
    /\ Effects(TRUE, FALSE, inflight, Tail(timers), loading)

\* Date.now() advances.  Only a tick that separates two creates can be
\* observed, so the clock is let advance once the current time has been used
\* for the temporary id of a create that is still in flight.
Tick ==
    /\ UNCHANGED <<authVars, noteVars, formVars, editVars>>
    /\ NewTempId(now) \in pendingItemIds
    /\ now' = now + 1
    /\ UNCHANGED <<pageVars, items, pendingItemIds, loading, pendingDeleteId,
                   notification, inflight, timers, serverVars, budget,
                   fetchCount, last>>

----------------------------------------------------------------------------
(* TodoViewDialog: handlers up to their first await *)

handleAddItem(text) ==
    /\ UNCHANGED <<authVars, noteVars, formVars, editVars>>
    /\ DialogVisible
    /\ ~PopoverOpen
    /\ CanStart
    /\ Trim(text) # <<>>
    /\ LET tempId == NewTempId(now)
           tempItem == [id |-> tempId, description |-> Trim(text),
                        isCompleted |-> FALSE, todoId |-> viewingTodo.id]
           call == Call("create", viewingTodo, tempId, Trim(text), FALSE,
                        tempItem)
       IN  /\ items' = Append(items, tempItem)
           /\ pendingItemIds' = MarkPending(pendingItemIds, tempId)
           /\ last' = Event("add", call)
           /\ budget' = Spend
           /\ UNCHANGED <<pageVars, pendingDeleteId, notification, serverVars,
                          now>>
           /\ Effects(FALSE, TRUE, Append(inflight, call), timers, loading)

\* The handler is entered for any listed item; line 181 turns pending ones away.
handleToggleItem(itemId) ==
    /\ UNCHANGED <<authVars, noteVars, formVars, editVars>>
    /\ ListVisible
    /\ itemId \in Ids(items)
    /\ IF itemId \in pendingItemIds
       THEN /\ last' = Event("toggleBlocked",
                             Call("toggle", viewingTodo, itemId, <<>>, FALSE,
                                  NoItem))
            /\ UNCHANGED <<pageVars, items, pendingItemIds, loading,
                           pendingDeleteId, notification, inflight, timers,
                           serverVars, now, budget, fetchCount>>
       ELSE /\ CanStart
            /\ LET item == FindItem(items, itemId)
                   newCompletedStatus == ~item.isCompleted
                   updatedItems ==
                       PatchCompleted(items, itemId, newCompletedStatus)
                   call == Call("toggle", viewingTodo, itemId, <<>>,
                                newCompletedStatus, item)
               IN  /\ items' = updatedItems
                   /\ last' = Event("toggle", call)
                   /\ budget' = Spend
                   /\ UNCHANGED <<pageVars, pendingItemIds, pendingDeleteId,
                                  notification, serverVars, now>>
                   /\ Effects(FALSE, TRUE, Append(inflight, call),
                              Append(timers, [todo |-> viewingTodo,
                                              items |-> updatedItems]),
                              loading)

\* The handler is entered for any listed item; line 239 turns pending ones away.
handleDeleteClick(itemId) ==
    /\ UNCHANGED <<authVars, noteVars, formVars, editVars>>
    /\ ListVisible
    /\ itemId \in Ids(items)
    /\ IF itemId \in pendingItemIds
       THEN /\ last' = Event("deleteBlocked",
                             Call("delete", viewingTodo, itemId, <<>>, FALSE,
                                  NoItem))
            /\ UNCHANGED pendingDeleteId
       ELSE /\ pendingDeleteId' = itemId
            /\ last' = Event("deleteClick", NoCall)
    /\ UNCHANGED <<pageVars, items, pendingItemIds, loading, notification,
                   inflight, timers, serverVars, now, budget, fetchCount>>

handleDeleteCancel ==
    /\ UNCHANGED <<authVars, noteVars, formVars, editVars>>
    /\ DialogVisible
    /\ PopoverOpen
    /\ pendingDeleteId' = NoId
    /\ last' = Event("deleteCancel", NoCall)
    /\ UNCHANGED <<pageVars, items, pendingItemIds, loading, notification,
                   inflight, timers, serverVars, now, budget, fetchCount>>

\* Mutant: the item is taken out of the store when the delete is confirmed.
handleDeleteConfirm_Optimistic ==
    /\ UNCHANGED <<authVars, noteVars, formVars, editVars>>
    /\ DialogVisible
    /\ PopoverOpen
    /\ CanStart
    /\ LET call == Call("delete", viewingTodo, pendingDeleteId, <<>>, FALSE,
                        NoItem)
       IN  /\ items' = RemoveItem(items, pendingDeleteId)
           /\ last' = Event("delete", call)
           /\ budget' = Spend
           /\ UNCHANGED <<pageVars, pendingItemIds, pendingDeleteId,
                          notification, serverVars, now>>
           /\ Effects(FALSE, TRUE, Append(inflight, call), timers, loading)

handleDeleteConfirm ==
    /\ UNCHANGED <<authVars, noteVars, formVars, editVars>>
    /\ DialogVisible
    /\ PopoverOpen
    /\ CanStart
    /\ LET call == Call("delete", viewingTodo, pendingDeleteId, <<>>, FALSE,
                        NoItem)
       IN  /\ inflight' = Append(inflight, call)
           /\ last' = Event("delete", call)
           /\ budget' = Spend
    /\ UNCHANGED <<pageVars, items, pendingItemIds, loading, pendingDeleteId,
                   notification, timers, serverVars, now, fetchCount>>

\* Mutant: a pending item can be clicked into edit mode.
CanEdit_Always(itemId) == TRUE

\* TodoItemComponent: the description can be clicked into edit mode only when
\* the item is not pending (line 655).
CanEdit(itemId) == itemId \notin pendingItemIds

\* Mutant: the new text is put into the store before the remote update.
handleUpdateItemText_Optimistic(itemId, newText) ==
    /\ UNCHANGED <<authVars, noteVars, formVars, editVars>>
    /\ ListVisible
    /\ itemId \in Ids(items)
    /\ CanEdit(itemId)
    /\ CanStart
    /\ LET call == IF Trim(newText) = <<>>
                   THEN Call("deleteText", viewingTodo, itemId, <<>>, FALSE,
                             NoItem)
                   ELSE Call("update", viewingTodo, itemId, Trim(newText),
                             FALSE, NoItem)
       IN  /\ items' = [i \in DOMAIN items |->
                          IF items[i].id = itemId
                          THEN [items[i] EXCEPT !.description = Trim(newText)]
                          ELSE items[i]]
           /\ last' = EventWith("edit", call, newText)
           /\ budget' = Spend
           /\ UNCHANGED <<pageVars, pendingItemIds, pendingDeleteId,
                          notification, serverVars, now>>
           /\ Effects(FALSE, TRUE, Append(inflight, call), timers, loading)

\* TodoItemComponent.handleSave -> handleUpdateItemText(itemId, editText)
handleUpdateItemText(itemId, newText) ==
    /\ UNCHANGED <<authVars, noteVars, formVars, editVars>>
    /\ ListVisible
    /\ itemId \in Ids(items)
    /\ CanEdit(itemId)
    /\ CanStart
    /\ LET call == IF Trim(newText) = <<>>
                   THEN Call("deleteText", viewingTodo, itemId, <<>>, FALSE,
                             NoItem)
                   ELSE Call("update", viewingTodo, itemId, Trim(newText),
                             FALSE, NoItem)
       IN  /\ inflight' = Append(inflight, call)
           /\ last' = EventWith("edit", call, newText)
           /\ budget' = Spend
    /\ UNCHANGED <<pageVars, items, pendingItemIds, loading, pendingDeleteId,
                   notification, timers, serverVars, now, fetchCount>>

----------------------------------------------------------------------------
(* The remote API behind todosApi: it serves the calls in any order. *)

ServerHas(c) == c.id \in Ids(serverItems[c.todo.id])

ServerResult(c) ==
    LET list == serverItems[c.todo.id]
        created == [id |-> ServerId(nextId), description |-> c.text,
                    isCompleted |-> FALSE, todoId |-> c.todo.id]
        old == FindItem(list, c.id)
    IN  CASE c.kind = "fetch" ->
                [ok |-> TRUE, list |-> list, resp |-> list]
          [] c.kind = "create" ->
                [ok |-> TRUE, list |-> Append(list, created),
                 resp |-> <<created>>]
          [] c.kind = "toggle" ->
                LET new == [old EXCEPT !.isCompleted = c.flag]
                IN  [ok |-> ServerHas(c), list |-> ReplaceItem(list, c.id, new),
                     resp |-> <<new>>]
          [] c.kind = "update" ->
                LET new == [old EXCEPT !.description = c.text]
                IN  [ok |-> ServerHas(c), list |-> ReplaceItem(list, c.id, new),
                     resp |-> <<new>>]
          [] OTHER ->
                [ok |-> ServerHas(c), list |-> RemoveItem(list, c.id),
                 resp |-> <<>>]

Serve(i) ==
    /\ UNCHANGED <<authVars, noteVars, formVars, editVars>>
    /\ i \in 1..Len(inflight)
    /\ inflight[i].stage = "sent"
    /\ LET c == inflight[i]
           r == ServerResult(c)
       IN  IF r.ok
           THEN /\ serverItems' = [serverItems EXCEPT ![c.todo.id] = r.list]
                /\ nextId' = IF c.kind = "create" THEN nextId + 1 ELSE nextId
                /\ inflight' = [inflight EXCEPT ![i].stage = "ok",
                                                ![i].resp = r.resp]
           ELSE /\ inflight' = [inflight EXCEPT ![i].stage = "fail"]
                /\ UNCHANGED serverVars
    /\ UNCHANGED <<pageVars, items, pendingItemIds, loading, pendingDeleteId,
                   notification, timers, now, budget, fetchCount, last>>

\* The awaited promise of call i resolves.
Resolves(i, kind) ==
    /\ i \in 1..Len(inflight)
    /\ inflight[i].kind = kind
    /\ inflight[i].stage = "ok"

\* The awaited promise of call i rejects: the API refused the call, or the
\* request never reached it.
Rejects(i, kind) ==
    /\ i \in 1..Len(inflight)
    /\ inflight[i].kind = kind
    /\ inflight[i].stage \in {"sent", "fail"}

----------------------------------------------------------------------------
(* TodoViewDialog: continuations after the await *)

FetchOk(i) ==
    /\ UNCHANGED <<authVars, noteVars, formVars, editVars>>
    /\ Resolves(i, "fetch")
    /\ items' = inflight[i].resp
    /\ last' = Event("fetchOk", inflight[i])
    /\ UNCHANGED <<pageVars, pendingItemIds, pendingDeleteId, notification,
                   serverVars, now, budget>>
    /\ Effects(FALSE, TRUE, RemoveAt(inflight, i), timers, FALSE)

\* Mutant: the catch branch of fetchItems empties the store.
FetchFail_Clears(i) ==
    /\ UNCHANGED <<authVars, noteVars, formVars, editVars>>
    /\ Rejects(i, "fetch")
    /\ items' = <<>>
    /\ notification' = Notice("Failed to load todo items", "error")
    /\ last' = Event("fetchFail", inflight[i])
    /\ UNCHANGED <<pageVars, pendingItemIds, pendingDeleteId,
                   serverVars, now, budget>>
    /\ Effects(FALSE, TRUE, RemoveAt(inflight, i), timers, FALSE)

FetchFail(i) ==
    /\ UNCHANGED <<authVars, noteVars, formVars, editVars>>
    /\ Rejects(i, "fetch")
    /\ notification' = Notice("Failed to load todo items", "error")
    /\ last' = Event("fetchFail", inflight[i])
    /\ UNCHANGED <<pageVars, items, pendingItemIds, pendingDeleteId,
                   serverVars, now, budget>>
    /\ Effects(FALSE, FALSE, RemoveAt(inflight, i), timers, FALSE)

CreateOk(i) ==
    /\ UNCHANGED <<authVars, noteVars, formVars, editVars>>
    /\ Resolves(i, "create")
    /\ LET c == inflight[i]
           updated == ReplaceItem(items, c.id, c.resp[1])
       IN  /\ items' = updated
           /\ pendingItemIds' = UnmarkPending(pendingItemIds, c.id)
           /\ notification' = Notice("Item added successfully", "success")
           /\ last' = Event("createOk", c)
           /\ UNCHANGED <<pageVars, pendingDeleteId, serverVars, now, budget>>
           /\ Effects(FALSE, TRUE, RemoveAt(inflight, i),
                      Append(timers, [todo |-> c.todo, items |-> updated]),
                      loading)

CreateFail(i) ==
    /\ UNCHANGED <<authVars, noteVars, formVars, editVars>>
    /\ Rejects(i, "create")
    /\ LET c == inflight[i]
           updated == RemoveItem(items, c.id)
       IN  /\ items' = updated
           /\ pendingItemIds' = UnmarkPending(pendingItemIds, c.id)
           /\ notification' = Notice("Failed to add item", "error")
           /\ last' = Event("createFail", c)
           /\ UNCHANGED <<pageVars, pendingDeleteId, serverVars, now, budget>>
           /\ Effects(FALSE, TRUE, RemoveAt(inflight, i),
                      Append(timers, [todo |-> c.todo, items |-> updated]),
                      loading)

\* The toggle continuations call onTodoUpdate inside the state updater.
ToggleOk(i) ==
    /\ UNCHANGED <<authVars, noteVars, formVars, editVars>>
    /\ Resolves(i, "toggle")
    /\ LET c == inflight[i]
           finalItems == ReplaceItem(items, c.id, c.resp[1])
           updatedTodo == WithItems(c.todo, finalItems)
       IN  /\ items' = finalItems
           /\ todos' = TodosAfterUpdate(updatedTodo)
           /\ viewingTodo' = ViewingAfterUpdate(updatedTodo, c.todo)
           /\ last' = Event("toggleOk", c)
           /\ UNCHANGED <<viewDialogOpen, pendingItemIds, pendingDeleteId,
                          notification, serverVars, now, budget>>
           /\ Effects(TRUE, TRUE, RemoveAt(inflight, i), timers, loading)

ToggleFail(i) ==
    /\ UNCHANGED <<authVars, noteVars, formVars, editVars>>
    /\ Rejects(i, "toggle")
    /\ LET c == inflight[i]
           revertedItems == RevertItem(items, c.id, c.item)
           updatedTodo == WithItems(c.todo, revertedItems)
       IN  /\ items' = revertedItems
           /\ todos' = TodosAfterUpdate(updatedTodo)
           /\ viewingTodo' = ViewingAfterUpdate(updatedTodo, c.todo)
           /\ notification' = Notice("Failed to update item", "error")
           /\ last' = Event("toggleFail", c)
           /\ UNCHANGED <<viewDialogOpen, pendingItemIds, pendingDeleteId,
                          serverVars, now, budget>>
           /\ Effects(TRUE, TRUE, RemoveAt(inflight, i), timers, loading)

DeleteOk(i) ==
    /\ UNCHANGED <<authVars, noteVars, formVars, editVars>>
    /\ Resolves(i, "delete")
    /\ LET c == inflight[i]
           updated == RemoveItem(items, c.id)
       IN  /\ items' = updated
           /\ notification' = Notice("Item deleted successfully", "success")
           /\ pendingDeleteId' = NoId
           /\ last' = Event("deleteOk", c)
           /\ UNCHANGED <<pageVars, pendingItemIds, serverVars, now, budget>>
           /\ Effects(FALSE, TRUE, RemoveAt(inflight, i),
                      Append(timers, [todo |-> c.todo, items |-> updated]),
                      loading)

\* Mutant: the catch branch of handleDeleteConfirm tries the delete again.
DeleteFail_Retry(i) ==
    /\ UNCHANGED <<authVars, noteVars, formVars, editVars>>
    /\ Rejects(i, "delete")
    /\ notification' = Notice("Failed to delete item", "error")
    /\ pendingDeleteId' = NoId
    /\ last' = Event("deleteFail", inflight[i])
    /\ UNCHANGED <<pageVars, items, pendingItemIds, serverVars, now, budget>>
    /\ Effects(FALSE, FALSE,
               Append(RemoveAt(inflight, i),
                      [inflight[i] EXCEPT !.stage = "sent"]),
               timers, loading)

DeleteFail(i) ==
    /\ UNCHANGED <<authVars, noteVars, formVars, editVars>>
    /\ Rejects(i, "delete")
    /\ notification' = Notice("Failed to delete item", "error")
    /\ pendingDeleteId' = NoId
    /\ last' = Event("deleteFail", inflight[i])
    /\ UNCHANGED <<pageVars, items, pendingItemIds, serverVars, now, budget>>
    /\ Effects(FALSE, FALSE, RemoveAt(inflight, i), timers, loading)

DeleteTextOk(i) ==
    /\ UNCHANGED <<authVars, noteVars, formVars, editVars>>
    /\ Resolves(i, "deleteText")
    /\ LET c == inflight[i]
           updated == RemoveItem(items, c.id)
       IN  /\ items' = updated
           /\ notification' = Notice("Item deleted successfully", "success")
           /\ last' = Event("deleteTextOk", c)
           /\ UNCHANGED <<pageVars, pendingItemIds, pendingDeleteId,
                          serverVars, now, budget>>
           /\ Effects(FALSE, TRUE, RemoveAt(inflight, i),
                      Append(timers, [todo |-> c.todo, items |-> updated]),
                      loading)

DeleteTextFail(i) ==
    /\ UNCHANGED <<authVars, noteVars, formVars, editVars>>
    /\ Rejects(i, "deleteText")
    /\ notification' = Notice("Failed to delete item", "error")
    /\ last' = Event("deleteTextFail", inflight[i])
    /\ UNCHANGED <<pageVars, items, pendingItemIds, pendingDeleteId,
                   serverVars, now, budget>>
    /\ Effects(FALSE, FALSE, RemoveAt(inflight, i), timers, loading)

UpdateOk(i) ==
    /\ UNCHANGED <<authVars, noteVars, formVars, editVars>>
    /\ Resolves(i, "update")
    /\ LET c == inflight[i]
           updated == ReplaceItem(items, c.id, c.resp[1])
       IN  /\ items' = updated
           /\ notification' = Notice("Item updated successfully", "success")
           /\ last' = Event("updateOk", c)
           /\ UNCHANGED <<pageVars, pendingItemIds, pendingDeleteId,
                          serverVars, now, budget>>
           /\ Effects(FALSE, TRUE, RemoveAt(inflight, i),
                      Append(timers, [todo |-> c.todo, items |-> updated]),
                      loading)

UpdateFail(i) ==
    /\ UNCHANGED <<authVars, noteVars, formVars, editVars>>
    /\ Rejects(i, "update")
    /\ notification' = Notice("Failed to update item", "error")
    /\ last' = Event("updateFail", inflight[i])
    /\ UNCHANGED <<pageVars, items, pendingItemIds, pendingDeleteId,
                   serverVars, now, budget>>
    /\ Effects(FALSE, FALSE, RemoveAt(inflight, i), timers, loading)

----------------------------------------------------------------------------
(* The session: ConfigProvider, AuthProvider, the API client's response     *)
(* interceptor and the remote API's session.                                *)

NoConfig == "none"
TheConfig == "cfg"
NoUser == "none"
TheUser == "u1"

\* A request through the API client; good tells a login with valid credentials.
AuthCall(kind, good) == [kind |-> kind, good |-> good, stage |-> "sent"]

AuthStart ==
    /\ config = NoConfig
    /\ configLoading = TRUE
    /\ user = NoUser
    /\ authLoading = TRUE
    /\ hasAttemptedLoad = FALSE
    /\ skipAutoLoad = FALSE
    /\ listening = FALSE
    /\ ranDeps = <<TRUE, NoConfig, FALSE, FALSE>>
    /\ authCalls = <<>>
    /\ authBudget = MaxAuthOps
    /\ authLast = [ev |-> "init", status |-> "200", dispatched |-> FALSE,
                   rejected |-> FALSE, heard |-> FALSE]

\* ConfigProvider.fetchConfig resolves: initializeApiClient, setConfig.
ConfigLoaded ==
    /\ configLoading
    /\ config' = TheConfig
    /\ configLoading' = FALSE
    /\ UNCHANGED <<user, authLoading, hasAttemptedLoad, skipAutoLoad,
                   listening, ranDeps, session, authCalls, authBudget,
                   authLast>>
    /\ UNCHANGED <<todoVars, noteVars, formVars>>

\* ConfigProvider.fetchConfig fails: config stays null.
ConfigFailed ==
    /\ configLoading
    /\ configLoading' = FALSE
    /\ UNCHANGED <<config, user, authLoading, hasAttemptedLoad, skipAutoLoad,
                   listening, ranDeps, session, authCalls, authBudget,
                   authLast>>
    /\ UNCHANGED <<todoVars, noteVars, formVars>>

\* The dependency list of AuthProvider's effect.
AuthEffectDeps == <<configLoading, config, hasAttemptedLoad, skipAutoLoad>>

\* The effect returns early: no profile load and no listener.
AuthEffectSkips ==
    configLoading \/ config = NoConfig \/ hasAttemptedLoad \/ skipAutoLoad

\* AuthProvider's effect runs again after a render that changed one of its
\* dependencies: the cleanup of the previous run removes the listener; unless
\* it returns early, the new run starts loadUser (which sets hasAttemptedLoad
\* and calls authApi.getMe) and registers handleLogout.
AuthEffect ==
    /\ ranDeps # AuthEffectDeps
    /\ ranDeps' = AuthEffectDeps
    /\ IF AuthEffectSkips
       THEN /\ listening' = FALSE
            /\ UNCHANGED <<hasAttemptedLoad, authCalls>>
       ELSE /\ listening' = TRUE
            /\ hasAttemptedLoad' = TRUE
            /\ authCalls' = Append(authCalls, AuthCall("getMe", FALSE))
    /\ UNCHANGED <<config, configLoading, user, authLoading, skipAutoLoad,
                   session, authBudget, authLast>>
    /\ UNCHANGED <<todoVars, noteVars, formVars>>

\* The login page (shown while not authenticated) calls login; its form is
\* disabled while a login is in flight.
login(good) ==
    /\ config # NoConfig
    /\ user = NoUser
    /\ \A i \in DOMAIN authCalls : authCalls[i].kind # "login"
    /\ authBudget > 0
    /\ authBudget' = authBudget - 1
    /\ authCalls' = Append(authCalls, AuthCall("login", good))
    /\ UNCHANGED <<config, configLoading, user, authLoading, hasAttemptedLoad,
                   skipAutoLoad, listening, ranDeps, session, authLast>>
    /\ UNCHANGED <<todoVars, noteVars, formVars>>

\* AppNavigation calls logout: the state is cleared before the request.
logout ==
    /\ user # NoUser
    /\ authBudget > 0
    /\ authBudget' = authBudget - 1
    /\ user' = NoUser
    /\ hasAttemptedLoad' = FALSE
    /\ skipAutoLoad' = TRUE
    /\ authCalls' = Append(authCalls, AuthCall("logout", FALSE))
    /\ UNCHANGED <<config, configLoading, authLoading, listening, ranDeps,
                   session, authLast>>
    /\ UNCHANGED <<todoVars, noteVars, formVars>>

\* A page behind the login issues any other request through the API client.
ApiRequest ==
    /\ config # NoConfig
    /\ user # NoUser
    /\ authBudget > 0
    /\ authBudget' = authBudget - 1
    /\ authCalls' = Append(authCalls, AuthCall("api", FALSE))
    /\ UNCHANGED <<config, configLoading, user, authLoading, hasAttemptedLoad,
                   skipAutoLoad, listening, ranDeps, session, authLast>>
    /\ UNCHANGED <<todoVars, noteVars, formVars>>

\* The remote API answers a request: 401 without a valid session.
AuthServe(i) ==
    /\ i \in DOMAIN authCalls
    /\ authCalls[i].stage = "sent"
    /\ LET c == authCalls[i]
           status == CASE c.kind = "login" ->
                            IF c.good THEN "200" ELSE "401"
                       [] c.kind = "logout" -> "200"
                       [] OTHER -> IF session THEN "200" ELSE "401"
       IN  /\ authCalls' = [authCalls EXCEPT ![i].stage = status]
           /\ session' = CASE c.kind = "login" /\ c.good -> TRUE
                           [] c.kind = "logout" -> FALSE
                           [] OTHER -> session
    /\ UNCHANGED <<config, configLoading, user, authLoading, hasAttemptedLoad,
                   skipAutoLoad, listening, ranDeps, authBudget, authLast>>
    /\ UNCHANGED <<todoVars, noteVars, formVars>>

\* The session of the remote API expires.
SessionExpires ==
    /\ session
    /\ session' = FALSE
    /\ UNCHANGED <<config, configLoading, user, authLoading, hasAttemptedLoad,
                   skipAutoLoad, listening, ranDeps, authCalls, authBudget,
                   authLast>>
    /\ UNCHANGED <<todoVars, noteVars, formVars>>

\* What the caller of request i gets: the answer of the API, or no answer at
\* all when the request never reached it.
Status(c) == IF c.stage = "sent" THEN "none" ELSE c.stage

Settles(i, kind) ==
    /\ i \in DOMAIN authCalls
    /\ authCalls[i].kind = kind

\* The interceptor dispatches auth:logout on a 401; handleLogout runs if it is
\* registered at that time.
Heard(status) == status = "401" /\ listening

\* What authLast records of a delivered response: whether the interceptor
\* dispatched auth:logout, whether handleLogout heard it, and whether the
\* promise was rejected to the caller.
AuthEvent(ev, status) ==
    [ev |-> ev, status |-> status, dispatched |-> status = "401",
     rejected |-> status # "200", heard |-> Heard(status)]

\* The response interceptor, then handleLogout if it hears the event: what
\* they leave of user, hasAttemptedLoad and skipAutoLoad.
AfterInterceptor(status) ==
    IF Heard(status)
    THEN [user |-> NoUser, hasAttemptedLoad |-> FALSE, skipAutoLoad |-> TRUE]
    ELSE [user |-> user, hasAttemptedLoad |-> hasAttemptedLoad,
          skipAutoLoad |-> skipAutoLoad]

\* loadUser after its await.
GetMeSettles(i) ==
    /\ Settles(i, "getMe")
    /\ LET status == Status(authCalls[i])
           a == AfterInterceptor(status)
       IN  /\ user' = IF status = "200" THEN TheUser ELSE NoUser
           /\ hasAttemptedLoad' = a.hasAttemptedLoad
           /\ skipAutoLoad' = a.skipAutoLoad
           /\ authLoading' = FALSE
           /\ authLast' = AuthEvent("getMe", status)
    /\ authCalls' = RemoveAt(authCalls, i)
    /\ UNCHANGED <<config, configLoading, listening, ranDeps, session,
                   authBudget>>
    /\ UNCHANGED <<todoVars, noteVars, formVars>>

\* login after its await; a failure is rethrown to the login page.
LoginSettles(i) ==
    /\ Settles(i, "login")
    /\ LET status == Status(authCalls[i])
           a == AfterInterceptor(status)
       IN  /\ user' = IF status = "200" THEN TheUser ELSE a.user
           /\ hasAttemptedLoad' =
                IF status = "200" THEN TRUE ELSE a.hasAttemptedLoad
           /\ skipAutoLoad' =
                IF status = "200" THEN FALSE ELSE a.skipAutoLoad
           /\ authLast' = AuthEvent("login", status)
    /\ authCalls' = RemoveAt(authCalls, i)
    /\ UNCHANGED <<config, configLoading, authLoading, listening, ranDeps,
                   session, authBudget>>
    /\ UNCHANGED <<todoVars, noteVars, formVars>>

\* logout after its await: authApi.logout swallows the failure.
LogoutSettles(i) ==
    /\ Settles(i, "logout")
    /\ LET status == Status(authCalls[i])
           a == AfterInterceptor(status)
       IN  /\ user' = a.user
           /\ hasAttemptedLoad' = a.hasAttemptedLoad
           /\ skipAutoLoad' = a.skipAutoLoad
           /\ authLast' = [AuthEvent("logout", status) EXCEPT
                              !.rejected = FALSE]
    /\ authCalls' = RemoveAt(authCalls, i)
    /\ UNCHANGED <<config, configLoading, authLoading, listening, ranDeps,
                   session, authBudget>>
    /\ UNCHANGED <<todoVars, noteVars, formVars>>

\* Any other request settles; its caller handles the rejection.
ApiSettles(i) ==
    /\ Settles(i, "api")
    /\ LET status == Status(authCalls[i])
           a == AfterInterceptor(status)
       IN  /\ user' = a.user
           /\ hasAttemptedLoad' = a.hasAttemptedLoad
           /\ skipAutoLoad' = a.skipAutoLoad
           /\ authLast' = AuthEvent("api", status)
    /\ authCalls' = RemoveAt(authCalls, i)
    /\ UNCHANGED <<config, configLoading, authLoading, listening, ranDeps,
                   session, authBudget>>
    /\ UNCHANGED <<todoVars, noteVars, formVars>>

AuthNext ==
    \/ ConfigLoaded
    \/ ConfigFailed
    \/ AuthEffect
    \/ \E good \in BOOLEAN : login(good)
    \/ logout
    \/ ApiRequest
    \/ \E i \in DOMAIN authCalls : AuthServe(i)
    \/ SessionExpires
    \/ \E i \in DOMAIN authCalls : GetMeSettles(i)
    \/ \E i \in DOMAIN authCalls : LoginSettles(i)
    \/ \E i \in DOMAIN authCalls : LogoutSettles(i)
    \/ \E i \in DOMAIN authCalls : ApiSettles(i)

----------------------------------------------------------------------------
(* The note view: NotesPage, NoteViewDialog and the attachment API.         *)

NoteIds == {"N1", "N2"}

NoNote == [id |-> "none", attachmentIds |-> <<>>]
NoRef == "none"
NoError == ""

\* The notes the page has loaded: N1 has an attachment, N2 has none.
PageNote(n) ==
    [id |-> n, attachmentIds |-> IF n = "N1" THEN <<"a1">> ELSE <<>>]

\* notesApi.getNoteAttachments as the remote API answers it.
ServerAttachments(n) == IF n = "N1" THEN <<"att1">> ELSE <<>>

NoteCall(noteId) == [noteId |-> noteId, stage |-> "sent", resp |-> <<>>]

NoteStart ==
    /\ noteViewOpen = FALSE
    /\ viewingNote = NoNote
    /\ noteNotice = FALSE
    /\ attachments = <<>>
    /\ loadingAttachments = FALSE
    /\ attachmentError = NoError
    /\ hasFetchedRef = NoRef
    /\ noteCalls = <<>>
    /\ noteBudget = MaxNoteOps
    /\ noteLast = [ev |-> "init", noteId |-> "none", ref |-> NoRef,
                   issued |-> FALSE, failed |-> "none", refetched |-> FALSE]

NoteDialogVisible == noteViewOpen /\ viewingNote # NoNote

\* The dependencies of the open effect that the page can change: open,
\* note?.id and note?.attachmentIds; fetchAttachments, the fourth, is a new
\* function after every render of the page.
NoteEffectDeps(open, note) == <<open, note.id, note.attachmentIds>>

\* The open effect runs after this step.
NoteEffectRuns(pageRendered) ==
    \/ pageRendered
    \/ NoteEffectDeps(noteViewOpen', viewingNote')
            # NoteEffectDeps(noteViewOpen, viewingNote)

NoteShown == noteViewOpen' /\ viewingNote'.id # "none"

\* fetchAttachments(note.id) passes its guard: the marker is not this note.
NoteFetchNow(pageRendered) ==
    /\ NoteEffectRuns(pageRendered)
    /\ NoteShown
    /\ viewingNote'.attachmentIds # <<>>
    /\ hasFetchedRef # viewingNote'.id

\* The open effect of NoteViewDialog and the part of fetchAttachments before
\* its await.  The conjuncts before a use fix noteViewOpen' and viewingNote';
\* att, ld and calls are what the handler left of attachments,
\* loadingAttachments and noteCalls.
NoteEffects(pageRendered, att, ld, calls) ==
    LET keep == /\ NoteShown
                /\ hasFetchedRef = viewingNote'.id
                /\ viewingNote'.attachmentIds # <<>>
    IN  IF ~NoteEffectRuns(pageRendered)
        THEN /\ attachments' = att
             /\ loadingAttachments' = ld
             /\ noteCalls' = calls
             /\ UNCHANGED <<attachmentError, hasFetchedRef>>
        ELSE /\ attachments' = IF keep THEN att ELSE <<>>
             /\ attachmentError' = IF keep THEN attachmentError ELSE NoError
             /\ hasFetchedRef' = IF NoteShown THEN viewingNote'.id ELSE NoRef
             /\ loadingAttachments' =
                    IF NoteFetchNow(pageRendered) THEN TRUE ELSE ld
             /\ noteCalls' =
                    IF NoteFetchNow(pageRendered)
                    THEN Append(calls, NoteCall(viewingNote'.id))
                    ELSE calls

\* What noteLast records of a step: the event, the note it is about, the
\* marker before the step, whether the step issued a fetch, the viewed note
\* whose fetch failed since the view last changed its target, and whether the
\* step issued a fetch for that note.
NoteEvent(ev, noteId, pageRendered, failed) ==
    [ev |-> ev, noteId |-> noteId, ref |-> hasFetchedRef,
     issued |-> NoteFetchNow(pageRendered), failed |-> failed,
     refetched |-> /\ NoteFetchNow(pageRendered)
                   /\ viewingNote'.id = noteLast.failed
                   /\ viewingNote.id = viewingNote'.id]

noteCardClick(n) ==
    /\ ~NoteDialogVisible
    /\ noteBudget > 0
    /\ noteBudget' = noteBudget - 1
    /\ viewingNote' = PageNote(n)
    /\ noteViewOpen' = TRUE
    /\ noteLast' = NoteEvent("open", n, TRUE, "none")
    /\ NoteEffects(TRUE, attachments, loadingAttachments, noteCalls)
    /\ UNCHANGED noteNotice
    /\ UNCHANGED <<todoVars, authVars, formVars>>

noteViewClose ==
    /\ NoteDialogVisible
    /\ noteViewOpen' = FALSE
    /\ viewingNote' = NoNote
    /\ noteLast' = NoteEvent("close", viewingNote.id, TRUE, "none")
    /\ NoteEffects(TRUE, attachments, loadingAttachments, noteCalls)
    /\ UNCHANGED <<noteNotice, noteBudget>>
    /\ UNCHANGED <<todoVars, authVars, formVars>>

\* The page's snackbar closes (by itself or by the user): the page renders.
hideNoteNotice ==
    /\ noteNotice
    /\ noteNotice' = FALSE
    /\ UNCHANGED <<noteViewOpen, viewingNote, noteBudget>>
    /\ noteLast' = NoteEvent("hide", viewingNote.id, TRUE, noteLast.failed)
    /\ NoteEffects(TRUE, attachments, loadingAttachments, noteCalls)
    /\ UNCHANGED <<todoVars, authVars, formVars>>

\* The remote API answers an attachment fetch, or refuses it.
NoteServe(i, ok) ==
    /\ i \in DOMAIN noteCalls
    /\ noteCalls[i].stage = "sent"
    /\ noteCalls' =
        IF ok
        THEN [noteCalls EXCEPT ![i].stage = "ok",
                               ![i].resp = ServerAttachments(noteCalls[i].noteId)]
        ELSE [noteCalls EXCEPT ![i].stage = "fail"]
    /\ UNCHANGED <<noteViewOpen, viewingNote, noteNotice, attachments,
                   loadingAttachments, attachmentError, hasFetchedRef,
                   noteBudget, noteLast>>
    /\ UNCHANGED <<todoVars, authVars, formVars>>

\* handleFetchAttachments returns the list; fetchAttachments sets it.
NoteFetchOk(i) ==
    /\ i \in DOMAIN noteCalls
    /\ noteCalls[i].stage = "ok"
    /\ UNCHANGED <<noteViewOpen, viewingNote, noteNotice, noteBudget>>
    /\ noteLast' = NoteEvent("fetchOk", noteCalls[i].noteId, FALSE,
                             noteLast.failed)
    /\ NoteEffects(FALSE, noteCalls[i].resp, FALSE, RemoveAt(noteCalls, i))
    /\ UNCHANGED <<todoVars, authVars, formVars>>

\* notesApi.getNoteAttachments rejects: the catch of handleFetchAttachments
\* shows the page's notification and returns [], so fetchAttachments goes on
\* as after a success.
NoteFetchFailed(i) ==
    /\ i \in DOMAIN noteCalls
    /\ noteCalls[i].stage \in {"sent", "fail"}
    /\ noteNotice' = TRUE
    /\ UNCHANGED <<noteViewOpen, viewingNote, noteBudget>>
    /\ noteLast' = NoteEvent("fetchFailed", noteCalls[i].noteId, TRUE,
                             IF NoteDialogVisible
                                /\ noteCalls[i].noteId = viewingNote.id
                             THEN viewingNote.id ELSE noteLast.failed)
    /\ NoteEffects(TRUE, <<>>, FALSE, RemoveAt(noteCalls, i))
    /\ UNCHANGED <<todoVars, authVars, formVars>>

NotesNext ==
    \/ \E n \in NoteIds : noteCardClick(n)
    \/ noteViewClose
    \/ hideNoteNotice
    \/ \E i \in DOMAIN noteCalls, ok \in BOOLEAN : NoteServe(i, ok)
    \/ \E i \in DOMAIN noteCalls : NoteFetchOk(i)
    \/ \E i \in DOMAIN noteCalls : NoteFetchFailed(i)

----------------------------------------------------------------------------
(* The note form: NotesPage, NoteForm and the notes API.  The note view is  *)
(* closed while the form is in use.  handleFetchAttachments is a new        *)
(* function after every render of NotesPage, so every such render runs the  *)
(* effect of NoteForm again.                                                *)

NoAtt == "none"

Files == {"f1", "f2"}

\* What a user types into the title or the content of the form.
FormTexts == { <<" ", "b">> }

\* The notes whose Edit button is used: N1, which has an attachment.
EditedIds == {"N1"}

\* The ids the remote API hands out to created notes and to stored uploads.
CreatedIds == <<"M1", "M2", "M3", "M4", "M5", "M6", "M7", "M8">>
UploadedIds == <<"up1", "up2", "up3", "up4", "up5", "up6", "up7", "up8",
                 "up9", "up10", "up11", "up12", "up13", "up14", "up15",
                 "up16", "up17", "up18", "up19", "up20">>

AllNoteIds == NoteIds \cup {CreatedIds[k] : k \in DOMAIN CreatedIds}

\* A Note as NotesPage holds it.
FormNote(n) ==
    [id |-> n, attachmentIds |-> PageNote(n).attachmentIds,
     title |-> <<"a">>, content |-> <<"a">>]

\* editingNote is null.
NoEdit == [id |-> "none", attachmentIds |-> <<>>, title |-> <<>>,
           content |-> <<>>]

\* A remote call of the notes page in flight, with what the continuations in
\* NotesPage and NoteForm close over: the note id, the attachment id or the
\* file, the submitted fields and files, the continuation that awaits it
\* (then), whether a pending Promise.all awaits it (joined), the attachment
\* list before a delete, and the opening of the form it belongs to.
FormCall(kind, noteId, then) ==
    [kind |-> kind, noteId |-> noteId, then |-> then, att |-> NoAtt,
     file |-> "none", title |-> <<>>, content |-> <<>>, files |-> <<>>,
     joined |-> FALSE, before |-> <<>>, session |-> formSession,
     stage |-> "sent", resp |-> <<>>]

\* What formLast records of a step: the event and, when handleDeleteAttachment
\* has run to its end, whether the remote delete failed, the attachment and
\* the list before the delete.
FormEvent(ev) == [ev |-> ev, failed |-> FALSE, att |-> NoAtt, before |-> <<>>]

FormStart ==
    /\ formOpen = FALSE
    /\ editingNote = NoEdit
    /\ notes = <<FormNote("N1"), FormNote("N2")>>
    /\ apiLoading = FALSE
    /\ title = <<>>
    /\ content = <<>>
    /\ selectedFiles = <<>>
    /\ existingAttachments = <<>>
    /\ formLoadingAttachments = FALSE
    /\ deletingAttachmentId = NoAtt
    /\ formLoading = FALSE
    /\ srvNotes = <<>>
    /\ srvAttachments =
        [n \in AllNoteIds |->
            IF n \in NoteIds THEN ServerAttachments(n) ELSE <<>>]
    /\ uploaded = <<>>
    /\ formCalls = <<>>
    /\ formBudget = MaxFormOps
    /\ formSession = 0
    /\ formLast = FormEvent("init")

\* What the form actions leave alone.
formRest == <<todoVars, authVars, noteViewVars>>

\* The form can be used: it is open and the LoadingOverlay is not shown.
FormUsable == formOpen /\ ~apiLoading

\* A step that is not the answer to a request may add requests.
CanRequest == Len(formCalls) < MaxFormCalls

\* The effect of NoteForm, run after a render of NotesPage.  The conjuncts
\* before a use fix editingNote'; ex, ld and calls are what the handler left
\* of existingAttachments, loadingAttachments and formCalls.
FormEffect(ex, ld, calls) ==
    LET edit == editingNote' # NoEdit
    IN  /\ title' = IF edit THEN editingNote'.title ELSE <<>>
        /\ content' = IF edit THEN editingNote'.content ELSE <<>>
        /\ selectedFiles' = <<>>
        /\ existingAttachments' = IF edit THEN ex ELSE <<>>
        /\ formLoadingAttachments' = IF edit THEN TRUE ELSE ld
        /\ formCalls' =
            IF edit
            THEN Append(calls, FormCall("fetch", editingNote'.id, "effect"))
            ELSE calls

\* The New Note button: setFormOpen(true).
newNoteClick ==
    /\ ~formOpen
    /\ ~apiLoading
    /\ CanRequest
    /\ formBudget > 0
    /\ formBudget' = formBudget - 1
    /\ formOpen' = TRUE
    /\ formSession' = formSession + 1
    /\ formLast' = FormEvent("open")
    /\ UNCHANGED <<editingNote, notes, apiLoading, deletingAttachmentId,
                   formLoading, srvNotes, srvAttachments, uploaded,
                   noteNotice>>
    /\ FormEffect(existingAttachments, formLoadingAttachments, formCalls)
    /\ UNCHANGED formRest

handleEditClick(k) ==
    /\ ~formOpen
    /\ ~apiLoading
    /\ k \in DOMAIN notes
    /\ notes[k].id \in EditedIds
    /\ CanRequest
    /\ formBudget > 0
    /\ formBudget' = formBudget - 1
    /\ editingNote' = notes[k]
    /\ formOpen' = TRUE
    /\ formSession' = formSession + 1
    /\ formLast' = FormEvent("open")
    /\ UNCHANGED <<notes, apiLoading, deletingAttachmentId, formLoading,
                   srvNotes, srvAttachments, uploaded, noteNotice>>
    /\ FormEffect(existingAttachments, formLoadingAttachments, formCalls)
    /\ UNCHANGED formRest

\* NoteForm.handleClose (Cancel, or the Dialog's onClose), then
\* handleFormClose.
handleClose ==
    /\ FormUsable
    /\ CanRequest
    /\ formOpen' = FALSE
    /\ editingNote' = NoEdit
    /\ formLast' = FormEvent("close")
    /\ UNCHANGED <<notes, apiLoading, deletingAttachmentId, formLoading,
                   srvNotes, srvAttachments, uploaded, noteNotice,
                   formBudget, formSession>>
    /\ FormEffect(existingAttachments, formLoadingAttachments, formCalls)
    /\ UNCHANGED formRest

\* The fields and the file input are disabled while the form is saving.
FieldsUsable == FormUsable /\ ~formLoading

setTitle(text) ==
    /\ FieldsUsable
    /\ title' = text
    /\ formLast' = FormEvent("type")
    /\ UNCHANGED <<formOpen, editingNote, notes, apiLoading, content,
                   selectedFiles, existingAttachments, formLoadingAttachments,
                   deletingAttachmentId, formLoading, srvNotes,
                   srvAttachments, uploaded, formCalls, formBudget,
                   formSession, noteNotice>>
    /\ UNCHANGED formRest

setContent(text) ==
    /\ FieldsUsable
    /\ content' = text
    /\ formLast' = FormEvent("type")
    /\ UNCHANGED <<formOpen, editingNote, notes, apiLoading, title,
                   selectedFiles, existingAttachments, formLoadingAttachments,
                   deletingAttachmentId, formLoading, srvNotes,
                   srvAttachments, uploaded, formCalls, formBudget,
                   formSession, noteNotice>>
    /\ UNCHANGED formRest

\* handleFileSelect with one file of an allowed type: in edit mode the file
\* is uploaded at once (handleUploadAttachment up to its await), in create
\* mode it is kept for the submit.  The user picks a file that is not waiting
\* in the form already.
handleFileSelect(file) ==
    /\ FieldsUsable
    /\ IF editingNote # NoEdit
       THEN /\ CanRequest
            /\ formBudget > 0
            /\ formBudget' = formBudget - 1
            /\ apiLoading' = TRUE
            /\ formLast' = FormEvent("selectUpload")
            /\ UNCHANGED editingNote
            /\ FormEffect(existingAttachments, formLoadingAttachments,
                   Append(formCalls,
                       [FormCall("upload", editingNote.id, "select")
                            EXCEPT !.file = file]))
       ELSE /\ Len(selectedFiles) < MaxFiles
            /\ \A k \in DOMAIN selectedFiles : selectedFiles[k] # file
            /\ selectedFiles' = Append(selectedFiles, file)
            /\ formLast' = FormEvent("select")
            /\ UNCHANGED <<editingNote, apiLoading, title, content,
                           existingAttachments, formLoadingAttachments,
                           formCalls, formBudget>>
    /\ UNCHANGED <<formOpen, notes, deletingAttachmentId, formLoading,
                   srvNotes, srvAttachments, uploaded, formSession,
                   noteNotice>>
    /\ UNCHANGED formRest

handleRemoveFile(index) ==
    /\ FieldsUsable
    /\ index \in DOMAIN selectedFiles
    /\ selectedFiles' = RemoveAt(selectedFiles, index)
    /\ formLast' = FormEvent("remove")
    /\ UNCHANGED <<formOpen, editingNote, notes, apiLoading, title, content,
                   existingAttachments, formLoadingAttachments,
                   deletingAttachmentId, formLoading, srvNotes,
                   srvAttachments, uploaded, formCalls, formBudget,
                   formSession, noteNotice>>
    /\ UNCHANGED formRest

\* validate()
Valid == Trim(title) # <<>> /\ Trim(content) # <<>>

\* NoteForm.handleSubmit up to its first await: handleFormSubmit, then
\* handleCreateNote or handleUpdateNote up to the remote call.
handleSubmit ==
    /\ FieldsUsable
    /\ Valid
    /\ CanRequest
    /\ formBudget > 0
    /\ formBudget' = formBudget - 1
    /\ formLoading' = TRUE
    /\ apiLoading' = TRUE
    /\ formLast' = FormEvent("submit")
    /\ UNCHANGED <<formOpen, editingNote, notes, deletingAttachmentId,
                   srvNotes, srvAttachments, uploaded, formSession,
                   noteNotice>>
    /\ FormEffect(existingAttachments, formLoadingAttachments,
           Append(formCalls,
               [FormCall(IF editingNote # NoEdit THEN "updateNote"
                                                 ELSE "createNote",
                         editingNote.id, "submit")
                    EXCEPT !.title = title, !.content = content,
                           !.files = selectedFiles]))
    /\ UNCHANGED formRest

\* The attachment list shows its delete buttons.
ListShown ==
    /\ FormUsable
    /\ editingNote # NoEdit
    /\ ~formLoadingAttachments

\* AttachmentDisplay confirms a delete: NoteForm.handleDeleteAttachment up to
\* its await, which is NotesPage.handleDeleteAttachment up to the remote call.
handleDeleteAttachment(attachmentId) ==
    /\ ListShown
    /\ \E k \in DOMAIN existingAttachments :
            existingAttachments[k] = attachmentId
    /\ deletingAttachmentId # attachmentId
    /\ CanRequest
    /\ formBudget > 0
    /\ formBudget' = formBudget - 1
    /\ deletingAttachmentId' = attachmentId
    /\ apiLoading' = TRUE
    /\ formLast' = FormEvent("delete")
    /\ UNCHANGED <<formOpen, editingNote, notes, formLoading, srvNotes,
                   srvAttachments, uploaded, formSession, noteNotice>>
    /\ FormEffect(SelectSeq(existingAttachments,
                            LAMBDA a : a # attachmentId),
                  formLoadingAttachments,
                  Append(formCalls,
                      [FormCall("deleteAttachment", editingNote.id, "delete")
                           EXCEPT !.att = attachmentId,
                                  !.before = existingAttachments]))
    /\ UNCHANGED formRest

\* The page's snackbar closes (by itself or by the user): the page renders.
formNoticeHides ==
    /\ noteNotice
    /\ CanRequest
    /\ noteNotice' = FALSE
    /\ formLast' = FormEvent("hide")
    /\ UNCHANGED <<formOpen, editingNote, notes, apiLoading,
                   deletingAttachmentId, formLoading, srvNotes,
                   srvAttachments, uploaded, formBudget, formSession>>
    /\ FormEffect(existingAttachments, formLoadingAttachments, formCalls)
    /\ UNCHANGED formRest

\* What the remote API does with a request and what it answers.
FormServerResult(c) ==
    LET same == [notes |-> srvNotes, atts |-> srvAttachments,
                 ups |-> uploaded]
        id == CreatedIds[Len(srvNotes) + 1]
    IN  CASE c.kind = "fetch" ->
                same @@ [can |-> TRUE, resp |-> srvAttachments[c.noteId]]
          [] c.kind = "createNote" ->
                [can |-> TRUE,
                 notes |-> Append(srvNotes,
                               [id |-> id, title |-> c.title,
                                content |-> c.content,
                                session |-> c.session]),
                 atts |-> srvAttachments, ups |-> uploaded,
                 resp |-> << [id |-> id, attachmentIds |-> <<>>,
                              title |-> c.title, content |-> c.content] >>]
          [] c.kind = "updateNote" ->
                same @@ [can |-> TRUE,
                         resp |-> << [id |-> c.noteId,
                                      attachmentIds |->
                                          srvAttachments[c.noteId],
                                      title |-> c.title,
                                      content |-> c.content] >>]
          [] c.kind = "upload" ->
                [can |-> TRUE, notes |-> srvNotes,
                 atts |-> [srvAttachments EXCEPT ![c.noteId] =
                              Append(@, UploadedIds[Len(uploaded) + 1])],
                 ups |-> Append(uploaded,
                             [noteId |-> c.noteId, file |-> c.file,
                              session |-> c.session]),
                 resp |-> <<>>]
          [] OTHER ->
                [can |-> \E n \in AllNoteIds :
                            \E k \in DOMAIN srvAttachments[n] :
                                srvAttachments[n][k] = c.att,
                 notes |-> srvNotes,
                 atts |-> [n \in AllNoteIds |->
                              SelectSeq(srvAttachments[n],
                                        LAMBDA a : a # c.att)],
                 ups |-> uploaded, resp |-> <<>>]

\* The remote API performs a request and answers it, or refuses it when
\* there is no such attachment.
FormServe(i) ==
    /\ i \in DOMAIN formCalls
    /\ formCalls[i].stage = "sent"
    /\ LET r == FormServerResult(formCalls[i])
       IN  IF r.can
           THEN /\ srvNotes' = r.notes
                /\ srvAttachments' = r.atts
                /\ uploaded' = r.ups
                /\ formCalls' = [formCalls EXCEPT ![i].stage = "ok",
                                                  ![i].resp = r.resp]
           ELSE /\ formCalls' = [formCalls EXCEPT ![i].stage = "fail"]
                /\ UNCHANGED <<srvNotes, srvAttachments, uploaded>>
    /\ UNCHANGED <<formOpen, editingNote, notes, apiLoading, title, content,
                   selectedFiles, existingAttachments, formLoadingAttachments,
                   deletingAttachmentId, formLoading, formBudget,
                   formSession, formLast, noteNotice>>
    /\ UNCHANGED formRest

FormResolves(i, kinds) ==
    /\ i \in DOMAIN formCalls
    /\ formCalls[i].kind \in kinds
    /\ formCalls[i].stage = "ok"

\* The API refused the request, or the request never reached it.
FormRejects(i, kinds) ==
    /\ i \in DOMAIN formCalls
    /\ formCalls[i].kind \in kinds
    /\ formCalls[i].stage \in {"sent", "fail"}

\* handleUploadAttachment up to its await, for every file of the submit.
SubmitUploads(c, noteId) ==
    [k \in 1..Len(c.files) |->
        [FormCall("upload", noteId, "submit")
            EXCEPT !.file = c.files[k], !.joined = TRUE,
                   !.session = c.session]]

\* handleCreateNote or handleUpdateNote after the await, then handleSubmit:
\* it starts the upload of every file it closed over, or closes the form.
NoteSaved(i) ==
    /\ FormResolves(i, {"createNote", "updateNote"})
    /\ LET c == formCalls[i]
           saved == c.resp[1]
           more == c.files # <<>>
       IN  /\ notes' =
                IF c.kind = "createNote"
                THEN <<saved>> \o notes
                ELSE [k \in DOMAIN notes |->
                        IF notes[k].id = c.noteId THEN saved ELSE notes[k]]
           /\ noteNotice' = TRUE
           /\ apiLoading' = more
           /\ formLoading' = more
           /\ formOpen' = IF more THEN formOpen ELSE FALSE
           /\ editingNote' =
                IF c.kind = "updateNote" \/ ~more THEN NoEdit
                ELSE editingNote
           /\ formLast' = FormEvent("saved")
           /\ FormEffect(existingAttachments, formLoadingAttachments,
                  IF more
                  THEN RemoveAt(formCalls, i) \o SubmitUploads(c, saved.id)
                  ELSE RemoveAt(formCalls, i))
    /\ UNCHANGED <<deletingAttachmentId, srvNotes, srvAttachments, uploaded,
                   formBudget, formSession>>
    /\ UNCHANGED formRest

\* The catch branches of handleCreateNote or handleUpdateNote and of
\* handleSubmit: the form stays open.
NoteSaveFailed(i) ==
    /\ FormRejects(i, {"createNote", "updateNote"})
    /\ noteNotice' = TRUE
    /\ apiLoading' = FALSE
    /\ formLoading' = FALSE
    /\ formLast' = FormEvent("saveFailed")
    /\ UNCHANGED <<formOpen, editingNote, notes, deletingAttachmentId,
                   srvNotes, srvAttachments, uploaded, formBudget,
                   formSession>>
    /\ FormEffect(existingAttachments, formLoadingAttachments,
                  RemoveAt(formCalls, i))
    /\ UNCHANGED formRest

\* Another upload of the same Promise.all is still in flight.
OthersJoined(i) ==
    \E j \in DOMAIN formCalls : j # i /\ formCalls[j].joined

\* handleUploadAttachment after the await, then its caller: the last upload
\* of a submit closes the form; an upload from the file input refreshes the
\* attachment list.
UploadSettled(i) ==
    /\ FormResolves(i, {"upload"})
    /\ LET c == formCalls[i]
           closes == c.joined /\ ~OthersJoined(i)
           rest == RemoveAt(formCalls, i)
       IN  /\ notes' =
                [k \in DOMAIN notes |->
                    IF notes[k].id = c.noteId
                    THEN [notes[k] EXCEPT
                            !.attachmentIds = Append(@, "temp-id")]
                    ELSE notes[k]]
           /\ noteNotice' = TRUE
           /\ apiLoading' = FALSE
           /\ formLoading' = IF closes THEN FALSE ELSE formLoading
           /\ formOpen' = IF closes THEN FALSE ELSE formOpen
           /\ editingNote' = IF closes THEN NoEdit ELSE editingNote
           /\ formLast' = FormEvent("uploaded")
           /\ FormEffect(existingAttachments, formLoadingAttachments,
                  IF c.then = "select"
                  THEN Append(rest, FormCall("fetch", c.noteId,
                                             "refreshAfterUpload"))
                  ELSE rest)
    /\ UNCHANGED <<deletingAttachmentId, srvNotes, srvAttachments, uploaded,
                   formBudget, formSession>>
    /\ UNCHANGED formRest

\* The catch branch of handleUploadAttachment, then its caller: Promise.all
\* rejects and handleSubmit ends with the form open; handleFileSelect keeps
\* the file in selectedFiles, which the effect then empties.
UploadFailed(i) ==
    /\ FormRejects(i, {"upload"})
    /\ LET c == formCalls[i]
           rest == RemoveAt(formCalls, i)
       IN  /\ noteNotice' = TRUE
           /\ apiLoading' = FALSE
           /\ formLoading' = IF c.joined THEN FALSE ELSE formLoading
           /\ formLast' = FormEvent("uploadFailed")
           /\ UNCHANGED <<formOpen, editingNote>>
           /\ FormEffect(existingAttachments, formLoadingAttachments,
                  IF c.joined
                  THEN [k \in DOMAIN rest |->
                           [rest[k] EXCEPT !.joined = FALSE]]
                  ELSE rest)
    /\ UNCHANGED <<notes, deletingAttachmentId, srvNotes, srvAttachments,
                   uploaded, formBudget, formSession>>
    /\ UNCHANGED formRest

\* The fetch with which handleDeleteAttachment goes on after its await.
AfterDelete(c, then) ==
    [FormCall("fetch", c.noteId, then)
        EXCEPT !.att = c.att, !.before = c.before]

\* NotesPage.handleDeleteAttachment after the await, then the refresh of
\* NoteForm.handleDeleteAttachment up to its await.
AttachmentDeleted(i) ==
    /\ FormResolves(i, {"deleteAttachment"})
    /\ LET c == formCalls[i]
       IN  /\ notes' =
                [k \in DOMAIN notes |->
                    IF notes[k].id = c.noteId
                    THEN [notes[k] EXCEPT
                            !.attachmentIds =
                                SubSeq(@, 1, Len(@) - 1)]
                    ELSE notes[k]]
           /\ noteNotice' = TRUE
           /\ apiLoading' = FALSE
           /\ formLast' = FormEvent("deleted")
           /\ UNCHANGED <<formOpen, editingNote>>
           /\ FormEffect(existingAttachments, formLoadingAttachments,
                  Append(RemoveAt(formCalls, i),
                         AfterDelete(c, "refreshAfterDelete")))
    /\ UNCHANGED <<deletingAttachmentId, formLoading, srvNotes,
                   srvAttachments, uploaded, formBudget, formSession>>
    /\ UNCHANGED formRest

\* The catch branches of NotesPage.handleDeleteAttachment and of
\* NoteForm.handleDeleteAttachment up to the await of the restoring fetch.
AttachmentDeleteFailed(i) ==
    /\ FormRejects(i, {"deleteAttachment"})
    /\ LET c == formCalls[i]
       IN  /\ noteNotice' = TRUE
           /\ apiLoading' = FALSE
           /\ formLast' = FormEvent("deleteFailed")
           /\ UNCHANGED <<formOpen, editingNote>>
           /\ FormEffect(existingAttachments, formLoadingAttachments,
                  Append(RemoveAt(formCalls, i),
                         AfterDelete(c, "restoreAfterDelete")))
    /\ UNCHANGED <<notes, deletingAttachmentId, formLoading, srvNotes,
                   srvAttachments, uploaded, formBudget, formSession>>
    /\ UNCHANGED formRest

\* The fetch belongs to handleDeleteAttachment, which ends with it.
EndsDelete(c) == c.then \in {"refreshAfterDelete", "restoreAfterDelete"}

FetchEvent(c) ==
    IF EndsDelete(c)
    THEN [ev |-> "deleteSettled", failed |-> c.then = "restoreAfterDelete",
          att |-> c.att, before |-> c.before]
    ELSE FormEvent("fetched")

\* handleFetchAttachments returns the list to the code of NoteForm that
\* awaits it: the effect, handleFileSelect or handleDeleteAttachment.
AttachmentsFetched(i) ==
    /\ FormResolves(i, {"fetch"})
    /\ LET c == formCalls[i]
       IN  /\ existingAttachments' = c.resp
           /\ formLoadingAttachments' =
                IF c.then = "effect" THEN FALSE ELSE formLoadingAttachments
           /\ deletingAttachmentId' =
                IF EndsDelete(c) THEN NoAtt ELSE deletingAttachmentId
           /\ formLast' = FetchEvent(c)
           /\ formCalls' = RemoveAt(formCalls, i)
    /\ UNCHANGED <<formOpen, editingNote, notes, apiLoading, title, content,
                   selectedFiles, formLoading, srvNotes, srvAttachments,
                   uploaded, formBudget, formSession, noteNotice>>
    /\ UNCHANGED formRest

\* The catch branch of handleFetchAttachments shows the page's notification
\* and returns [] to the code of NoteForm that awaits it.
AttachmentsFetchFailed(i) ==
    /\ FormRejects(i, {"fetch"})
    /\ LET c == formCalls[i]
       IN  /\ noteNotice' = TRUE
           /\ deletingAttachmentId' =
                IF EndsDelete(c) THEN NoAtt ELSE deletingAttachmentId
           /\ formLast' = FetchEvent(c)
           /\ UNCHANGED <<formOpen, editingNote>>
           /\ FormEffect(<<>>,
                  IF c.then = "effect" THEN FALSE
                  ELSE formLoadingAttachments,
                  RemoveAt(formCalls, i))
    /\ UNCHANGED <<notes, apiLoading, formLoading, srvNotes, srvAttachments,
                   uploaded, formBudget, formSession>>
    /\ UNCHANGED formRest

FormNext ==
    \/ newNoteClick
    \/ \E k \in DOMAIN notes : handleEditClick(k)
    \/ handleClose
    \/ \E text \in FormTexts : setTitle(text)
    \/ \E text \in FormTexts : setContent(text)
    \/ \E file \in Files : handleFileSelect(file)
    \/ \E index \in DOMAIN selectedFiles : handleRemoveFile(index)
    \/ handleSubmit
    \/ \E k \in DOMAIN existingAttachments :
            handleDeleteAttachment(existingAttachments[k])
    \/ formNoticeHides
    \/ \E i \in DOMAIN formCalls : FormServe(i)
    \/ \E i \in DOMAIN formCalls : NoteSaved(i)
    \/ \E i \in DOMAIN formCalls : NoteSaveFailed(i)
    \/ \E i \in DOMAIN formCalls : UploadSettled(i)
    \/ \E i \in DOMAIN formCalls : UploadFailed(i)
    \/ \E i \in DOMAIN formCalls : AttachmentDeleted(i)
    \/ \E i \in DOMAIN formCalls : AttachmentDeleteFailed(i)
    \/ \E i \in DOMAIN formCalls : AttachmentsFetched(i)
    \/ \E i \in DOMAIN formCalls : AttachmentsFetchFailed(i)

----------------------------------------------------------------------------
(* Editing a todo list: the Edit button of TodoViewDialog, the TodoForm in  *)
(* edit mode and handleUpdateTodo of TodosPage.  The form is modal, so no   *)
(* card is clicked while it is open; it keeps the typed title until it is   *)
(* submitted, so the title is an input of the submit.                      *)

\* Titles a user may give to a todo list; all pass TodoForm.validate.
TodoTitles == {"t1"}

\* handleEdit of the dialog: onEdit(todo), which is handleEditClick of the
\* page, then onClose(), which is handleViewDialogClose.
handleEdit ==
    /\ UNCHANGED <<authVars, noteVars, formVars>>
    /\ DialogVisible
    /\ ~PopoverOpen
    /\ editingTodo = NoTodo
    /\ CanStart
    /\ budget' = Spend
    /\ editingTodo' = viewingTodo
    /\ viewDialogOpen' = FALSE
    /\ viewingTodo' = NoTodo
    /\ last' = Event("editTodo", NoCall)
    /\ UNCHANGED <<todos, items, pendingItemIds, pendingDeleteId,
                   notification, serverVars, now, todoCalls>>
    /\ Effects(TRUE, FALSE, inflight, timers, loading)

\* TodoForm.handleSubmit in edit mode up to await onSubmit, with
\* handleFormSubmit and handleUpdateTodo up to their await.  The call keeps
\* the editingTodo and viewingTodo of the render it was made in.
handleUpdateTodo(newTitle) ==
    /\ UNCHANGED <<authVars, noteVars, formVars>>
    /\ editingTodo # NoTodo
    /\ todoCalls = <<>>
    /\ Len(timers) < MaxTimers
    /\ todoCalls' = << [todo |-> editingTodo, title |-> newTitle,
                         viewing |-> viewingTodo] >>
    /\ last' = Event("submitTodo", NoCall)
    /\ UNCHANGED <<pageVars, items, pendingItemIds, pendingDeleteId,
                   notification, serverVars, now, budget, editingTodo>>
    /\ Effects(TRUE, FALSE, inflight, timers, loading)

\* The Todo that updateTodo returns: the list with its new title; the API
\* does not populate items.
UpdatedTodo(c) == [id |-> c.todo.id, title |-> c.title, items |-> <<>>]

\* handleUpdateTodo after the await, the call having succeeded, then the
\* form's onClose (handleFormClose).
UpdateTodoOk ==
    /\ UNCHANGED <<authVars, noteVars, formVars>>
    /\ todoCalls # <<>>
    /\ LET c == Head(todoCalls)
       IN  /\ todos' = TodosAfterUpdate(UpdatedTodo(c))
           /\ viewingTodo' = IF c.viewing.id = c.todo.id
                               THEN UpdatedTodo(c)
                               ELSE viewingTodo
    /\ editingTodo' = NoTodo
    /\ todoCalls' = <<>>
    /\ last' = Event("todoSaved", NoCall)
    /\ UNCHANGED <<viewDialogOpen, items, pendingItemIds, pendingDeleteId,
                   notification, serverVars, now, budget>>
    /\ Effects(TRUE, FALSE, inflight, timers, loading)

\* handleUpdateTodo after the await, the call having failed: the form stays
\* open.
UpdateTodoFail ==
    /\ UNCHANGED <<authVars, noteVars, formVars>>
    /\ todoCalls # <<>>
    /\ todoCalls' = <<>>
    /\ last' = Event("todoSaveFailed", NoCall)
    /\ UNCHANGED <<pageVars, items, pendingItemIds, pendingDeleteId,
                   notification, serverVars, now, budget, editingTodo>>
    /\ Effects(TRUE, FALSE, inflight, timers, loading)

\* TodoForm.handleClose, which does nothing while the form is submitting,
\* with handleFormClose of the page.
handleFormClose ==
    /\ UNCHANGED <<authVars, noteVars, formVars>>
    /\ editingTodo # NoTodo
    /\ todoCalls = <<>>
    /\ editingTodo' = NoTodo
    /\ last' = Event("closeForm", NoCall)
    /\ UNCHANGED <<pageVars, items, pendingItemIds, pendingDeleteId,
                   notification, serverVars, now, budget, todoCalls>>
    /\ Effects(TRUE, FALSE, inflight, timers, loading)

----------------------------------------------------------------------------
(* Specification *)

Calls == DOMAIN inflight

\* The steps of a view that is not closed by the user and whose list fetch
\* does not fail.
OpenViewNext ==
    \/ \E t \in TodoIds : handleCardClick(t)
    \/ RunTimer
    \/ Tick
    \/ \E text \in Texts : handleAddItem(text)
    \/ \E id \in Ids(items) : handleToggleItem(id)
    \/ \E id \in Ids(items) : handleDeleteClick(id)
    \/ handleDeleteCancel
    \/ handleDeleteConfirm
    \/ \E id \in Ids(items), text \in Texts : handleUpdateItemText(id, text)
    \/ \E i \in Calls : Serve(i)
    \/ \E i \in Calls : FetchOk(i)
    \/ \E i \in Calls : CreateOk(i)
    \/ \E i \in Calls : CreateFail(i)
    \/ \E i \in Calls : ToggleOk(i)
    \/ \E i \in Calls : ToggleFail(i)
    \/ \E i \in Calls : DeleteOk(i)
    \/ \E i \in Calls : DeleteFail(i)
    \/ \E i \in Calls : DeleteTextOk(i)
    \/ \E i \in Calls : DeleteTextFail(i)
    \/ \E i \in Calls : UpdateOk(i)
    \/ \E i \in Calls : UpdateFail(i)

Next ==
    \/ OpenViewNext
    \/ handleViewDialogClose
    \/ \E i \in Calls : FetchFail(i)

\* The todo view, with the session and the notes page at rest.
Init == TodoStart /\ AuthStart /\ session = FALSE /\ NoteStart /\ FormStart

Spec == Init /\ [][Next]_vars

\* The session, with the todo view and the notes page at rest; the browser
\* may or may not hold a valid session cookie when the application starts.
AuthInit ==
    TodoStart /\ AuthStart /\ session \in BOOLEAN /\ NoteStart /\ FormStart

SpecAuth == AuthInit /\ [][AuthNext]_vars

\* The note view, with the todo view and the session at rest.
NotesInit ==
    TodoStart /\ AuthStart /\ session = FALSE /\ NoteStart /\ FormStart

SpecNotes == NotesInit /\ [][NotesNext]_vars

\* The note form, with the todo view, the session and the note view at rest.
FormInit ==
    TodoStart /\ AuthStart /\ session = FALSE /\ NoteStart /\ FormStart

SpecForm == FormInit /\ [][FormNext]_vars

\* The todo view together with the editing of the viewed todo list.
EditNext ==
    \/ Next
    \/ handleEdit
    \/ \E newTitle \in TodoTitles : handleUpdateTodo(newTitle)
    \/ UpdateTodoOk
    \/ UpdateTodoFail
    \/ handleFormClose

SpecEdit == Init /\ [][EditNext]_vars

\* The todo view opened once and left open, its list having been fetched.
SpecOpenView == Init /\ [][OpenViewNext]_vars

----------------------------------------------------------------------------
(* Vocabulary of the properties *)

IsMutation(c) ==
    c.kind \in {"create", "toggle", "update", "delete", "deleteText"}

InFlight(kinds) == {i \in DOMAIN inflight : inflight[i].kind \in kinds}

Positions(list, id) == {i \in DOMAIN list : list[i].id = id}

Others(list, id) == SelectSeq(list, LAMBDA it : it.id # id)

\* Settlements that rewrite one entry in place, remove entries, or leave the
\* store alone.
MapSettled == {"createOk", "toggleOk", "toggleFail", "updateOk"}
FilterSettled == {"createFail", "deleteOk", "deleteTextOk"}
IdleSettled == {"deleteFail", "deleteTextFail", "updateFail"}

----------------------------------------------------------------------------
(* Properties *)

\* C1: Pending-set drains. Whenever no create and no delete of a todo item is
\* in flight any more, whatever mix of successes and failures settled them and
\* in whatever order, pendingItemIds is empty.
C1_PendingSetDrains ==
    InFlight({"create", "delete", "deleteText"}) = {} => pendingItemIds = {}

\* C1 witness: two creates were issued, one succeeded (its server item is in
\* the store), the other has just failed, nothing is in flight and the
\* pending set is empty.
C1_Witness ==
    /\ last.ev = "createFail"
    /\ inflight = <<>>
    /\ \E i \in DOMAIN items : items[i].id = ServerId(3)
    /\ pendingItemIds = {}

\* C2: Rollback correctness. When the remote call of a create fails, the
\* settlement removes exactly the temporary entity of that create from the
\* store (or nothing, if it is no longer there): no other entity is removed
\* or altered.
C2_RollbackExact ==
    last.ev = "createFail" =>
        IF \E i \in DOMAIN last.before : last.before[i] = last.call.item
        THEN \E i \in DOMAIN last.before :
                /\ last.before[i] = last.call.item
                /\ items = RemoveAt(last.before, i)
        ELSE items = last.before

\* C3: Replace-not-duplicate. When the remote call of a create succeeds, the
\* store after the settlement holds the server-returned entity exactly once
\* and no entry with the temporary id of that create.
C3_ReplaceNotDuplicate ==
    last.ev = "createOk" =>
        /\ Cardinality(Positions(items, last.call.resp[1].id)) = 1
        /\ Positions(items, last.call.id) = {}

\* C4: Toggle rollback. When the remote update of a toggle fails, every entry
\* of the store with the toggled id has, after the settlement, the completion
\* flag the item had before the toggle was applied (the negation of the flag
\* that was sent).
C4_ToggleRollback ==
    last.ev = "toggleFail" =>
        \A i \in Positions(items, last.call.id) :
            items[i].isCompleted = ~last.call.flag

\* C4 witness: a toggle has just failed while the store still showed the
\* optimistic flag, and the item is back to its flag from before the toggle.
C4_Witness ==
    /\ last.ev = "toggleFail"
    /\ \E i \in Positions(last.before, last.call.id) :
            last.before[i].isCompleted = last.call.flag
    /\ \E i \in Positions(items, last.call.id) :
            items[i].isCompleted = ~last.call.flag

C6_MutationIsolation ==
    /\ last.ev \in MapSettled =>
            /\ Len(items) = Len(last.before)
            /\ \A i \in DOMAIN items :
                    last.before[i].id # last.call.id =>
                        items[i] = last.before[i]
    /\ last.ev \in FilterSettled =>
            /\ Others(items, last.call.id) = Others(last.before, last.call.id)
            /\ Positions(items, last.call.id) = {}
    /\ last.ev \in IdleSettled => items = last.before
    /\ last.ev = "toggleOk" =>
            \A i \in Positions(items, last.call.id) :
                items[i].isCompleted = last.call.flag

\* C6 witness: the delete of one item has just succeeded while the toggle of
\* another item is still in flight; the deleted item is gone and the other
\* item carries its toggled flag.
C6_Witness ==
    /\ last.ev = "deleteOk"
    /\ Positions(last.before, last.call.id) # {}
    /\ Positions(items, last.call.id) = {}
    /\ \E k \in InFlight({"toggle"}) :
            /\ inflight[k].id # last.call.id
            /\ \E i \in Positions(items, inflight[k].id) :
                    items[i].isCompleted = inflight[k].flag

\* C7: Empty-text-implies-delete. Saving a blank or whitespace-only text for
\* an item issues the delete call for that id and never an update call; no
\* update call carries an empty description; and when that delete succeeds
\* the item is removed from the store as by a delete.
C7_EmptyTextDeletes ==
    /\ (last.ev = "edit" /\ \A k \in DOMAIN last.input : last.input[k] = " ")
            => last.call.kind = "deleteText"
    /\ \A i \in InFlight({"update"}) :
            \E k \in DOMAIN inflight[i].text : inflight[i].text[k] # " "
    /\ last.ev = "deleteTextOk" =>
            /\ Positions(items, last.call.id) = {}
            /\ items = Others(last.before, last.call.id)

\* C7 witness: the delete issued for a blank text has just succeeded and the
\* item, which was in the store, is gone.
C7_Witness ==
    /\ last.ev = "deleteTextOk"
    /\ Positions(last.before, last.call.id) # {}
    /\ Positions(items, last.call.id) = {}

\* C8: Pending guard blocks interaction. A toggle or a delete tried on an id
\* of the pending set changes nothing, and no toggle, text update or delete
\* call is in flight, nor is a delete confirmation open, for an id that is in
\* the pending set.
C8_PendingGuard ==
    /\ last.ev \in {"toggleBlocked", "deleteBlocked"} =>
            /\ last.call.id \in pendingItemIds
            /\ items = last.before
            /\ \A i \in InFlight({"toggle", "update", "delete", "deleteText"}) :
                    inflight[i].id # last.call.id
    /\ \A i \in InFlight({"toggle", "update", "delete", "deleteText"}) :
            inflight[i].id \notin pendingItemIds
    /\ pendingDeleteId \notin pendingItemIds

\* C8 witness: a toggle was tried on a listed item that is pending and was
\* turned away.
C8_Witness ==
    /\ last.ev = "toggleBlocked"
    /\ last.call.id \in pendingItemIds
    /\ last.call.id \in Ids(items)
    /\ items = last.before

\* C9: Per-entity ordering. No two remote mutations are in flight for the
\* same id, and every id with a create, delete or toggle in flight is in the
\* pending set.
C9_OneMutationPerId ==
    /\ \A i, j \in DOMAIN inflight :
            (i # j /\ IsMutation(inflight[i]) /\ IsMutation(inflight[j]))
                => inflight[i].id # inflight[j].id
    /\ \A i \in InFlight({"create", "delete", "deleteText", "toggle"}) :
            inflight[i].id \in pendingItemIds

\* C10: Temporary-id uniqueness. All ids in the item store are pairwise
\* distinct, so an optimistic create never appends an id that is already
\* there.
C10_IdsDistinct == Cardinality(Ids(items)) = Len(items)

\* The step just taken delivered an aggregate of the viewed todo to the page.
NotifiedViewed ==
    /\ last.ev \in {"notify", "toggleOk", "toggleFail"}
    /\ last.call.todo.id = viewingTodo.id

\* Nothing that changes the store or notifies the page is still to come.
Quiescent == inflight = <<>> /\ timers = <<>>

\* C11: Parent notification is eventually consistent. Once a notification for
\* the viewed todo has been delivered and no remote call and no deferred
\* notification is outstanding, the items of that todo held by the page equal
\* the item store, whatever the order of the deliveries.
C11_ParentConsistent ==
    (DialogVisible /\ NotifiedViewed /\ Quiescent)
        => todos[viewingTodo.id].items = items

\* The notification shown is the error with this message.
ShowsError(message) == notification = Notice(message, "error")

C13_SessionExpiryPropagates ==
    authLast.status = "401" =>
        /\ authLast.dispatched
        /\ user = NoUser
        /\ authLast.ev # "logout" => authLast.rejected

MutationKinds == {"create", "toggle", "update", "delete", "deleteText"}

\* The number of remote mutations in flight.
MutationCalls == Cardinality(InFlight(MutationKinds))

\* The message of the catch branch of the handler that issued a call.
FailureNotice(kind) ==
    CASE kind = "create" -> "Failed to add item"
      [] kind \in {"toggle", "update"} -> "Failed to update item"
      [] OTHER -> "Failed to delete item"

\* The catch branch of the handler that issued call i runs.
MutationFails(i) ==
    \/ CreateFail(i)
    \/ ToggleFail(i)
    \/ UpdateFail(i)
    \/ DeleteFail(i)
    \/ DeleteTextFail(i)

\* C14: Mutation errors are contained. Every step in which a create, toggle,
\* text update or delete of a todo item fails is the catch branch of the
\* handler that issued it: it leaves the handler's error notification showing
\* and one remote mutation fewer in flight, so the failed call is not issued
\* again.
C14_ErrorsContained ==
    [][\A i \in Calls :
          MutationFails(i) =>
              /\ notification' = Notice(FailureNotice(inflight[i].kind), "error")
              /\ MutationCalls' = MutationCalls - 1]_vars

\* C14 witness: a confirmed delete has just failed; the error is showing, the
\* item is still in the store and no delete is in flight.
C14_Witness ==
    /\ last.ev = "deleteFail"
    /\ ShowsError("Failed to delete item")
    /\ last.call.id \in Ids(items)
    /\ InFlight({"delete"}) = {}

\* The settlements that notify the page from a zero-delay callback, and the
\* failures whose catch branch notifies nobody.
DeferredSettles(i) ==
    \/ CreateOk(i)
    \/ CreateFail(i)
    \/ DeleteOk(i)
    \/ DeleteTextOk(i)
    \/ UpdateOk(i)
    \/ DeleteFail(i)
    \/ DeleteTextFail(i)
    \/ UpdateFail(i)

\* The settlements of a toggle, which notify the page at once.
ToggleSettles(i) == ToggleOk(i) \/ ToggleFail(i)

\* C15: Exactly-once notification. Every settlement of a create, toggle, text
\* update or delete delivers the aggregate to the page exactly once: a
\* settlement that defers its notification schedules exactly one delivery, a
\* toggle settlement delivers at once and schedules none, and a delivery
\* schedules no further delivery.
C15_ExactlyOnce ==
    [][/\ \A i \in Calls :
            DeferredSettles(i) =>
                /\ Len(timers') = Len(timers) + 1
                /\ todos' = todos
       /\ \A i \in Calls :
            ToggleSettles(i) =>
                /\ timers' = timers
                /\ todos'[inflight[i].todo.id].items = items'
       /\ RunTimer => timers' = Tail(timers)]_vars

\* C16: No auto-retry after a fetch failure. After the attachment fetch of
\* the viewed note has failed the note view shows an error state, and no step
\* issues a further fetch for that note while the view stays on it, also not
\* a render of the page that hands the view a new callback.
C16_NoAutoRetry ==
    /\ (/\ noteLast.ev = "fetchFailed"
         /\ NoteDialogVisible
         /\ noteLast.noteId = viewingNote.id) => attachmentError # NoError
    /\ ~noteLast.refetched

\* C17: Fetch-guard marker discipline. hasFetchedRef names a note only once
\* the attachments of that note have been fetched successfully (not while the
\* fetch is in flight, not after it failed), and a set marker is changed only
\* by pointing the view at another note, not by closing the view.
C17_MarkerDiscipline ==
    /\ \A i \in DOMAIN noteCalls : noteCalls[i].noteId # hasFetchedRef
    /\ noteLast.ev = "fetchFailed" => hasFetchedRef # noteLast.noteId
    /\ (noteLast.ref # NoRef /\ hasFetchedRef # noteLast.ref)
            => noteLast.ev = "open"

C20_RevertOnlyFlag ==
    last.ev = "toggleFail" =>
        /\ Len(items) = Len(last.before)
        /\ \A i \in DOMAIN items :
                items[i] =
                    IF last.before[i].id = last.call.id
                    THEN [last.before[i] EXCEPT
                             !.isCompleted = last.call.item.isCompleted]
                    ELSE last.before[i]

\* C21: Replace preserves position. When a create succeeds, the confirmed
\* entity stands at every index where the temporary entity stood, the store
\* keeps its length, and every other entity keeps its index; an optimistic
\* create puts the temporary entity at the end of the store.
C21_ReplacePreservesPosition ==
    /\ last.ev = "createOk" =>
            /\ Len(items) = Len(last.before)
            /\ \A i \in DOMAIN items :
                    items[i] = IF last.before[i].id = last.call.id
                               THEN last.call.resp[1]
                               ELSE last.before[i]
    /\ last.ev = "add" => items = Append(last.before, last.call.item)

\* C21 witness: a create has just succeeded whose temporary entity was not
\* the last of the store; the confirmed entity stands at its index and the
\* entity after it is still after it.
C21_Witness ==
    /\ last.ev = "createOk"
    /\ \E i \in Positions(last.before, last.call.id) :
            /\ i < Len(last.before)
            /\ last.before[i + 1].id # last.call.id
            /\ items[i] = last.call.resp[1]
            /\ items[i + 1] = last.before[i + 1]

\* The remote call i of a create, toggle, text update or delete settles.
MutationSettles(i) == DeferredSettles(i) \/ ToggleSettles(i)

\* C22: Race-guard skip is silent. Every settlement of a create, toggle, text
\* update or delete whose target id is no longer in the store leaves the
\* store as it is and shows no notification.
C22_RaceGuardSilent ==
    [][\A i \in Calls :
          (MutationSettles(i) /\ inflight[i].id \notin Ids(items)) =>
              /\ items' = items
              /\ notification' = notification]_vars

IsTempId(id) == id[1] = "temp"

\* C23: Temporary-id lifecycle. Every entity of the store with a temporary id
\* is in the pending set and the pending set holds temporary ids only; after
\* a create has settled no entity with its temporary id is in the store; and
\* no toggle, text update or delete in flight carries a temporary id.
C23_TempIdLifecycle ==
    /\ \A i \in DOMAIN items :
            IsTempId(items[i].id) => items[i].id \in pendingItemIds
    /\ \A id \in pendingItemIds : IsTempId(id)
    /\ last.ev \in {"createOk", "createFail"} =>
            Positions(items, last.call.id) = {}
    /\ \A i \in InFlight({"toggle", "update", "delete", "deleteText"}) :
            ~IsTempId(inflight[i].id)

\* C23 witness: a create has just succeeded; its temporary entity was in the
\* store and in the pending set until then, and is in neither now, while the
\* temporary entity of another create is still pending in the store.
C23_Witness ==
    /\ last.ev = "createOk"
    /\ last.call.id \in Ids(last.before)
    /\ last.call.id \notin Ids(items)
    /\ last.call.id \notin pendingItemIds
    /\ \E i \in DOMAIN items :
            IsTempId(items[i].id) /\ items[i].id \in pendingItemIds

OkSettled == {"createOk", "toggleOk", "updateOk", "deleteOk", "deleteTextOk"}
FailSettled ==
    {"createFail", "toggleFail", "updateFail", "deleteFail", "deleteTextFail"}

\* C24: Every mutation is announced. After the settlement of a create,
\* toggle, text update or delete a notification is showing: a success
\* notification when the remote call succeeded, an error notification when it
\* failed.
C24_EveryMutationAnnounced ==
    /\ last.ev \in OkSettled =>
            notification.open /\ notification.severity = "success"
    /\ last.ev \in FailSettled =>
            notification.open /\ notification.severity = "error"

\* C25: Attachment delete rollback. When handleDeleteAttachment of the note
\* form has run to its end the deleting marker is cleared, and if the remote
\* delete failed every attachment listed before the delete attempt is listed
\* again (the removed one is back, no other one is lost), also when the
\* fetch that restores the list fails.
C25_DeleteRollback ==
    formLast.ev = "deleteSettled" =>
        /\ deletingAttachmentId = NoAtt
        /\ formLast.failed =>
                \A k \in DOMAIN formLast.before :
                    \E j \in DOMAIN existingAttachments :
                        existingAttachments[j] = formLast.before[k]

\* The stored files that submits of the form sent: those attached to a note
\* the form created.
SubmitUploaded ==
    { k \in DOMAIN uploaded :
        \E n \in DOMAIN srvNotes : srvNotes[n].id = uploaded[k].noteId }

\* C30: Note form submission is not duplicated. Between one opening of the
\* note form and its closing the submits create at most one note and store
\* each file at most once.
C30_NoDuplicateSubmit ==
    /\ \A a, b \in DOMAIN srvNotes :
            a # b => srvNotes[a].session # srvNotes[b].session
    /\ \A a, b \in SubmitUploaded :
            a # b => ~ /\ uploaded[a].session = uploaded[b].session
                       /\ uploaded[a].file = uploaded[b].file

\* No list fetch is awaited by the view.
NoFetchInFlight ==
    /\ ~loading
    /\ \A i \in DOMAIN inflight : inflight[i].kind # "fetch"

\* Every entity of the list is a child of todo t.
ChildrenOf(list, t) == \A k \in DOMAIN list : list[k].todoId = t

\* C26: Single-parent store. Whenever the todo detail view is open on a todo
\* and no list fetch is in flight, every entity of the item store is a child
\* of that todo, and the items the page holds for a todo after a notification
\* are children of that todo.
C26_SingleParentStore ==
    /\ (DialogVisible /\ NoFetchInFlight) => ChildrenOf(items, viewingTodo.id)
    /\ \A t \in TodoIds : ChildrenOf(todos[t].items, todos[t].id)

\* C27: Notification changes only the children. The title the page holds for
\* a todo changes only when an edit of that todo is saved; no notification
\* from the detail view and no other step replaces it.
C27_NotifyKeepsParentFields ==
    [][(\A t \in TodoIds : todos'[t].title = todos[t].title)
            \/ UpdateTodoOk]_vars

\* Every remote call of the todo view has settled.
AllSettled == inflight = <<>> /\ ~loading

\* The two lists hold the same entities: same ids, descriptions and flags.
SameItems(a, b) ==
    /\ Len(a) = Len(b)
    /\ {a[k] : k \in DOMAIN a} = {b[k] : k \in DOMAIN b}

\* C28: Convergence with the server. In a todo detail view that stays open
\* on one todo, once every remote call has settled the item store holds the
\* items the server holds for that todo.
C28_ConvergesWithServer ==
    (DialogVisible /\ AllSettled) =>
        SameItems(items, serverItems[viewingTodo.id])

\* C29: Login is not undone by a stale profile load. When the profile load
\* settles while a user is logged in, and no 401 logout event is heard, the
\* user stays logged in; when it settles after a logout (skipAutoLoad set and
\* no login since), the user stays null.
C29_LoginNotUndone ==
    [][\A i \in DOMAIN authCalls :
            GetMeSettles(i) =>
                /\ (user # NoUser /\ ~Heard(Status(authCalls[i])))
                        => user' # NoUser
                /\ skipAutoLoad => user' = NoUser]_vars

====
